---- MODULE Spec2Model ----
(***************************************************************************)
(* Document retrieval pipeline of the autonomous knowledge worker:         *)
(* text chunker (src/src/rag/chunk_processor.py), vector store             *)
(* (src/src/rag/vector_store.py), encoder adapter (src/src/rag/embedding.py)*)
(* and retriever (src/src/rag/retriever.py).                               *)
(*                                                                         *)
(* Text is a sequence of one-character strings.  Python's 0-based indices  *)
(* and half-open slices are kept in the operators' parameters and turned   *)
(* into 1-based SubSeq calls at the point of use.                          *)
(***************************************************************************)
EXTENDS Integers, Sequences, FiniteSets, TLC

VARIABLES
    documents,     \* chunker: the batch of documents handed to the chunker
    chunk_size,    \* ChunkProcessor.chunk_size
    chunk_overlap, \* ChunkProcessor.chunk_overlap
    max_chunks_per_doc, \* ChunkProcessor.max_chunks_per_doc
    preserve_sentences, \* ChunkProcessor.preserve_sentences
    nltk_available,     \* whether "import nltk" succeeds in _chunk_by_sentences
    cpc,           \* chunker: "ready" before the call, then which call was made
    chunks,        \* chunker: the list the call returned
    raised,        \* chunker: whether the call raised instead of returning
    meta_in,       \* flattening: the metadata dict handed to _flatten_metadata
    meta_out,      \* flattening: the dict it returned
    fpc,           \* flattening: "ready" before the call, "done" after
    is_ready,      \* RAGRetriever.is_ready
    has_collection, \* VectorStore.collection is not None
    collection,    \* the entries of the ChromaDB collection, in insertion order
    dimension,     \* the collection's vector dimension, 0 while none is set
    op,            \* retriever/store: the last call made ("none" at first)
    args,          \* retriever/store: the arguments of the last call
    result,        \* retriever/store: what the last call returned
    after_clear,   \* retriever/store: whether the call before the last one was clear_index
    trace,         \* the calls the last call made to the encoder and the store, in order
    loop_text,     \* hard split: the text handed to _chunk_by_characters
    loop_start,    \* hard split: the 0-based start of the next window
    loop_chunks,   \* hard split: the list of windows appended so far
    lpc,           \* hard split: "loop" inside the while loop, "done" after it
    caller_pc,     \* concurrent adds: each caller's position in add_documents
    existing_count,   \* concurrent adds: the count each caller read
    caller_documents, \* concurrent adds: the documents each caller adds
    caller_result, \* concurrent adds: what each finished call returned
    task_counter, \* TaskDecomposer.task_counter
    task_plan \* the TaskPlan the caller holds: the last one decompose_task returned

chunkerVars == <<documents, chunk_size, chunk_overlap, max_chunks_per_doc,
                 preserve_sentences, nltk_available, cpc, chunks, raised>>
flattenVars == <<meta_in, meta_out, fpc>>
storeVars == <<is_ready, has_collection, collection, dimension, op, args, result,
               after_clear, trace>>
loopVars == <<loop_text, loop_start, loop_chunks, lpc>>
concurrentVars == <<caller_pc, existing_count, caller_documents, caller_result>>
planVars == <<task_counter, task_plan>>

----------------------------------------------------------------------------
(* Generic helpers                                                         *)

Indices(s) == [i \in 1..Len(s) |-> i]

\* Python s[a:b] for 0 <= a, 0 <= b (both clipped to len(s)).
Slice(s, a, b) ==
    LET hi == IF b > Len(s) THEN Len(s) ELSE b
    IN  IF a >= hi THEN <<>> ELSE SubSeq(s, a + 1, hi)

\* Python s[-n:] for n > 0.
LastN(s, n) == IF n >= Len(s) THEN s ELSE SubSeq(s, Len(s) - n + 1, Len(s))

RECURSIVE Flatten(_)
Flatten(ss) == IF ss = <<>> THEN <<>> ELSE Head(ss) \o Flatten(Tail(ss))

Min(S) == CHOOSE x \in S : \A y \in S : x <= y

\* The first index >= i of s whose character is in (member) or outside
\* (~member) the class, Len(s) + 1 when there is none.
ScanUp(s, i, class, member) ==
    LET at == {j \in i..Len(s) : (s[j] \in class) = member}
    IN  IF at = {} THEN Len(s) + 1 ELSE Min(at)

\* The last index <= i of s whose character is in (member) or outside
\* (~member) the class, 0 when there is none.
ScanDown(s, i, class, member) ==
    LET back == {k \in 1..i : (s[i + 1 - k] \in class) = member}
    IN  IF back = {} THEN 0 ELSE i + 1 - Min(back)

----------------------------------------------------------------------------
(* Character classes of Python's re module, restricted to ASCII            *)

WhitespaceChars == {" ", "\n", "\t"}
SentenceEnders == {".", "!", "?"}
WordChars ==
    {"a","b","c","d","e","f","g","h","i","j","k","l","m","n","o","p","q","r",
     "s","t","u","v","w","x","y","z",
     "A","B","C","D","E","F","G","H","I","J","K","L","M","N","O","P","Q","R",
     "S","T","U","V","W","X","Y","Z",
     "0","1","2","3","4","5","6","7","8","9","_"}
\* the class [\w\s.,!?;:()\-"] of ChunkProcessor._clean_text
ChunkerAllowed == WordChars \cup WhitespaceChars \cup
                  {".", ",", "!", "?", ";", ":", "(", ")", "-", "\""}
\* the class [\w\s.,!?] of RAGRetriever._clean_query
QueryAllowed == WordChars \cup WhitespaceChars \cup {".", ",", "!", "?"}

IsSpace(c) == c \in WhitespaceChars

----------------------------------------------------------------------------
(* str methods                                                             *)

\* str.strip()
Strip(s) ==
    LET first == ScanUp(s, 1, WhitespaceChars, FALSE)
        last  == ScanDown(s, Len(s), WhitespaceChars, FALSE)
    IN  IF last = 0 THEN <<>> ELSE SubSeq(s, first, last)

\* ' '.join(s.split()): the words of s separated by single spaces
JoinSplit(s) ==
    LET last == ScanDown(s, Len(s), WhitespaceChars, FALSE)
        keep(i) == \/ ~IsSpace(s[i])
                   \/ /\ i > 1
                      /\ ~IsSpace(s[i - 1])
                      /\ i < last
        kept == SelectSeq(Indices(s), keep)
    IN  IF last = 0 THEN <<>>
        ELSE [k \in 1..Len(kept) |-> IF IsSpace(s[kept[k]]) THEN " " ELSE s[kept[k]]]

\* len(s.split())
WordCount(s) ==
    Cardinality({i \in 1..Len(s) : ~IsSpace(s[i]) /\ (i = 1 \/ IsSpace(s[i - 1]))})

\* re.sub(r'\s+', ' ', s)
CollapseWhitespace(s) ==
    LET keep(i) == ~IsSpace(s[i]) \/ i = 1 \/ ~IsSpace(s[i - 1])
        kept == SelectSeq(Indices(s), keep)
    IN  [k \in 1..Len(kept) |-> IF IsSpace(s[kept[k]]) THEN " " ELSE s[kept[k]]]

\* re.sub(r'[^...]', ' ', s) for the allowed class
BlankOutside(s, allowed) ==
    [i \in 1..Len(s) |-> IF s[i] \in allowed THEN s[i] ELSE " "]

\* s.rfind(' '): 0-based index of the last space character, -1 when none
RFindSpace(s) == ScanDown(s, Len(s), {" "}, TRUE) - 1

\* The first index of the last ". " of s, 0 when s has none.
LastDotSpace(s) ==
    LET back == {k \in 1..(Len(s) - 1) : s[Len(s) - k] = "." /\ s[Len(s) - k + 1] = " "}
    IN  IF back = {} THEN 0 ELSE Len(s) - Min(back)

\* s.split('. ')[-1]: what follows the last ". " of s (s itself when none)
AfterLastDotSpace(s) ==
    LET at == LastDotSpace(s)
    IN  IF at = 0 THEN s ELSE Slice(s, at + 1, Len(s))

----------------------------------------------------------------------------
(* ChunkProcessor                                                          *)

\* ChunkProcessor._clean_text
CleanText(text) ==
    IF text = <<>> THEN <<>>
    ELSE Strip(JoinSplit(BlankOutside(CollapseWhitespace(text), ChunkerAllowed)))

\* The pieces re.split(r'[.!?]+', text) cuts text into, from index i on,
\* without the empty ones.
RECURSIVE SplitOnEnders(_, _)
SplitOnEnders(text, i) ==
    LET first == ScanUp(text, i, SentenceEnders, FALSE)
        next  == ScanUp(text, first, SentenceEnders, TRUE)
    IN  IF first > Len(text) THEN <<>>
        ELSE <<SubSeq(text, first, next - 1)>> \o SplitOnEnders(text, next)

\* ChunkProcessor._simple_sentence_split: re.split(r'[.!?]+'), strip,
\* keep the pieces longer than 10 characters.
SimpleSentenceSplit(text) ==
    LET pieces == SplitOnEnders(text, 1)
        stripped == [k \in 1..Len(pieces) |-> Strip(pieces[k])]
        longEnough(p) == p # <<>> /\ Len(p) > 10
    IN  SelectSeq(stripped, longEnough)

\* The index of the character that closes the sentence starting at i: the
\* last sentence ender of the first run of enders at or after i that
\* whitespace or the end of the text follows.
RECURSIVE SentenceEnd(_, _)
SentenceEnd(text, i) ==
    LET e    == ScanUp(text, i, SentenceEnders, TRUE)
        last == ScanUp(text, e, SentenceEnders, FALSE) - 1
    IN  IF e > Len(text) THEN Len(text)
        ELSE IF last = Len(text) \/ IsSpace(text[last + 1]) THEN last
        ELSE SentenceEnd(text, last + 1)

\* nltk.sent_tokenize (the punkt tokenizer, an external library): a sentence
\* ends at a run of sentence enders that is followed by whitespace or by the
\* end of the text; the enders stay with their sentence and the whitespace
\* between sentences is dropped.
RECURSIVE NltkFrom(_, _)
NltkFrom(text, i) ==
    LET first == ScanUp(text, i, WhitespaceChars, FALSE)
        last  == SentenceEnd(text, first)
    IN  IF first > Len(text) THEN <<>>
        ELSE <<Strip(SubSeq(text, first, last))>> \o NltkFrom(text, last + 1)

NltkSentTokenize(text) == NltkFrom(text, 1)

\* One pass of the while loop of _chunk_by_characters at 0-based `start`:
\* the window's text and its (possibly snapped) 0-based end.
CharWindow(text, start, size) ==
    LET end0   == start + size
        chunk0 == Slice(text, start, end0)
        last_space == RFindSpace(chunk0)
        snap   == /\ end0 < Len(text)
                  /\ ~IsSpace(text[end0 + 1])
                  /\ 10 * last_space > 8 * size
    IN  IF snap THEN [chunk_text |-> Slice(chunk0, 0, last_space), end |-> start + last_space]
        ELSE [chunk_text |-> chunk0, end |-> end0]

RECURSIVE CharLoop(_, _, _, _)
CharLoop(text, start, size, overlap) ==
    IF ~(start < Len(text)) THEN <<>>
    ELSE LET w == CharWindow(text, start, size)
         IN  IF w.end >= Len(text) THEN <<w.chunk_text>>
             ELSE <<w.chunk_text>> \o CharLoop(text, w.end - overlap, size, overlap)

\* ChunkProcessor._chunk_by_characters
ChunkByCharacters(text, size, overlap) == CharLoop(text, 0, size, overlap)

\* _add_overlap with the whole previous chunk taken as the overlap (the
\* [-chunk_overlap:] cut forgotten)
AddOverlapWholePrevious(packed, overlap) ==
    IF Len(packed) <= 1 THEN packed
    ELSE [i \in 1..Len(packed) |->
            IF i = 1 THEN packed[1]
            ELSE AfterLastDotSpace(packed[i - 1]) \o <<" ">> \o packed[i]]

\* _add_overlap returning the chunks as they are (no prefix injected)
AddOverlapMissing(packed, overlap) == packed

\* _add_overlap without the cut at the last ". " of the tail
AddOverlapNoSentenceCut(packed, overlap) ==
    IF Len(packed) <= 1 THEN packed
    ELSE [i \in 1..Len(packed) |->
            IF i = 1 THEN packed[1]
            ELSE LastN(packed[i - 1], overlap) \o <<" ">> \o packed[i]]

\* ChunkProcessor._add_overlap
AddOverlap(packed, overlap) ==
    IF Len(packed) <= 1 THEN packed
    ELSE [i \in 1..Len(packed) |->
            IF i = 1 THEN packed[1]
            ELSE LET previous_chunk == packed[i - 1]
                     overlap_text == IF Len(previous_chunk) > overlap
                                     THEN LastN(previous_chunk, overlap)
                                     ELSE previous_chunk
                 IN  AfterLastDotSpace(overlap_text) \o <<" ">> \o packed[i]]

\* The for loop of _chunk_by_sentences from sentence k on, with the chunks
\* flushed so far and the running buffer.
RECURSIVE PackSentences(_, _, _, _, _, _)
PackSentences(sentences, k, done, current_chunk, size, overlap) ==
    IF k > Len(sentences)
    THEN IF current_chunk # <<>> THEN Append(done, current_chunk) ELSE done
    ELSE LET sentence == sentences[k]
             potential_chunk == IF current_chunk # <<>>
                                THEN current_chunk \o <<" ">> \o sentence
                                ELSE sentence
         IN  IF Len(potential_chunk) <= size
             THEN PackSentences(sentences, k + 1, done, potential_chunk, size, overlap)
             ELSE LET flushed == IF current_chunk # <<>>
                                 THEN Append(done, current_chunk) ELSE done
                  IN  IF Len(sentence) > size
                      THEN LET char_chunks == ChunkByCharacters(sentence, size, overlap)
                           IN  PackSentences(sentences, k + 1,
                                   flushed \o SubSeq(char_chunks, 1, Len(char_chunks) - 1),
                                   IF char_chunks # <<>>
                                   THEN char_chunks[Len(char_chunks)] ELSE <<>>,
                                   size, overlap)
                      ELSE PackSentences(sentences, k + 1, flushed, sentence, size, overlap)

\* The sentence list _chunk_by_sentences works on.
Sentences(text, nltk) ==
    IF nltk THEN NltkSentTokenize(text) ELSE SimpleSentenceSplit(text)

\* The chunks of _chunk_by_sentences before the overlap is added.
PackedChunks(text, size, overlap, nltk) ==
    PackSentences(Sentences(text, nltk), 1, <<>>, <<>>, size, overlap)

\* ChunkProcessor._chunk_by_sentences
ChunkBySentences(text, size, overlap, nltk) ==
    AddOverlap(PackedChunks(text, size, overlap, nltk), overlap)

----------------------------------------------------------------------------
(* Metadata values: a scalar, a list or a mapping, each tagged with its    *)
(* Python type.  A mapping keeps its entries in insertion order, as a      *)
(* sequence of <<key, value>> pairs with distinct keys.                    *)

StrV(x)  == [t |-> "str", v |-> x]
IntV(n)  == [t |-> "int", v |-> n]
BoolV(b) == [t |-> "bool", v |-> b]
NoneV == [t |-> "none", v |-> "None"]
ListV(items) == [t |-> "list", v |-> items]
MapV(entries) == [t |-> "map", v |-> entries]

MapKeys(m) == {m.v[i][1] : i \in 1..Len(m.v)}
MapHas(m, key) == key \in MapKeys(m)
MapGet(m, key) == m.v[CHOOSE i \in 1..Len(m.v) : m.v[i][1] = key][2]

ScalarTags == {"str", "int", "bool", "none"}

\* m[key] = value on a dict: an existing key keeps its place and takes the
\* new value, a new key goes to the end.
MapSet(m, key, value) ==
    IF MapHas(m, key)
    THEN MapV([i \in 1..Len(m.v) |->
                 IF m.v[i][1] = key THEN <<key, value>> ELSE m.v[i]])
    ELSE MapV(Append(m.v, <<key, value>>))

\* sep.join(strings)
RECURSIVE JoinStr(_, _)
JoinStr(strings, sep) ==
    IF strings = <<>> THEN ""
    ELSE IF Len(strings) = 1 THEN strings[1]
    ELSE strings[1] \o sep \o JoinStr(Tail(strings), sep)

\* Python's repr() of a metadata value (strings without quote characters)
RECURSIVE PyRepr(_)
PyRepr(x) ==
    CASE x.t = "str"  -> "'" \o x.v \o "'"
      [] x.t = "int"  -> ToString(x.v)
      [] x.t = "bool" -> IF x.v THEN "True" ELSE "False"
      [] x.t = "none" -> "None"
      [] x.t = "list" -> "[" \o JoinStr([i \in 1..Len(x.v) |-> PyRepr(x.v[i])], ", ") \o "]"
      [] x.t = "map"  -> "{" \o JoinStr([i \in 1..Len(x.v) |->
                                "'" \o x.v[i][1] \o "': " \o PyRepr(x.v[i][2])], ", ") \o "}"

\* Python's str() of a metadata value
PyStr(x) == IF x.t = "str" THEN x.v ELSE PyRepr(x)

\* _flatten_recursive(obj, prefix) for a dict obj, from its entry i on;
\* `flattened` is the dict filled so far.
RECURSIVE FlattenRecursive(_, _, _, _)
FlattenRecursive(obj, i, prefix, flattened) ==
    IF i > Len(obj.v) THEN flattened
    ELSE LET key     == obj.v[i][1]
             value   == obj.v[i][2]
             new_key == IF prefix # "" THEN prefix \o "_" \o key ELSE key
             after   ==
                 CASE value.t = "map"  -> FlattenRecursive(value, 1, new_key, flattened)
                   [] value.t \in ScalarTags -> MapSet(flattened, new_key, value)
                   [] value.t = "list" ->
                        MapSet(flattened, new_key,
                               StrV(JoinStr([k \in 1..Len(value.v) |-> PyStr(value.v[k])], ", ")))
                   [] OTHER -> MapSet(flattened, new_key, StrV(PyStr(value)))
         IN  FlattenRecursive(obj, i + 1, prefix, after)

\* VectorStore._flatten_metadata
FlattenMetadata(metadata) == FlattenRecursive(metadata, 1, "", MapV(<<>>))

\* A document as the loader hands it over.  content_kind says what the
\* dict holds under 'content': "absent" (no such key), "none" (None) or
\* "str" (the text in `content`); has_source whether it has a 'source' key.
Doc(content, source, metadata) ==
    [content_kind |-> "str", content |-> content,
     has_source |-> TRUE, source |-> source, metadata |-> metadata]
DocNoSource(content, metadata) ==
    [content_kind |-> "str", content |-> content,
     has_source |-> FALSE, source |-> "", metadata |-> metadata]
DocNoContent(source) ==
    [content_kind |-> "absent", content |-> <<>>,
     has_source |-> TRUE, source |-> source, metadata |-> MapV(<<>>)]
DocNoneContent(source) ==
    [content_kind |-> "none", content |-> <<>>,
     has_source |-> TRUE, source |-> source, metadata |-> MapV(<<>>)]

\* the literal 50 of process_document: chunks shorter than this are skipped
MinChunkChars == 50

\* The chunk dict process_document builds for segment i (0-based).
MakeChunk(chunk_text, i, source_path, source_metadata) ==
    [content  |-> Strip(chunk_text),
     metadata |-> MapV(<< <<"chunk_id", StrV(source_path \o "_chunk_" \o ToString(i))>>,
                         <<"chunk_index", IntV(i)>>,
                         <<"source_document", StrV(source_path)>>,
                         <<"source_metadata", source_metadata>>,
                         <<"chunk_size", IntV(Len(chunk_text))>>,
                         <<"word_count", IntV(WordCount(chunk_text))>>,
                         <<"created_at", StrV("timestamp")>> >>)]

\* The for loop of process_document without its break at max_chunks_per_doc
RECURSIVE EmitChunksNoCap(_, _, _, _, _, _)
EmitChunksNoCap(segments, i, processed_chunks, source_path, source_metadata, cap) ==
    IF i >= Len(segments) THEN processed_chunks
    ELSE EmitChunksNoCap(segments, i + 1,
            IF Len(Strip(segments[i + 1])) < MinChunkChars THEN processed_chunks
            ELSE Append(processed_chunks,
                        MakeChunk(segments[i + 1], i, source_path, source_metadata)),
            source_path, source_metadata, cap)

\* The for loop of process_document over enumerate(chunks), from 0-based i.
RECURSIVE EmitChunks(_, _, _, _, _, _)
EmitChunks(segments, i, processed_chunks, source_path, source_metadata, cap) ==
    IF i >= Len(segments) THEN processed_chunks
    ELSE IF Len(Strip(segments[i + 1])) < MinChunkChars
         THEN EmitChunks(segments, i + 1, processed_chunks,
                         source_path, source_metadata, cap)
         ELSE LET appended == Append(processed_chunks,
                                  MakeChunk(segments[i + 1], i, source_path, source_metadata))
              IN  IF Len(appended) >= cap THEN appended
                  ELSE EmitChunks(segments, i + 1, appended,
                                  source_path, source_metadata, cap)

\* The segment list process_document enumerates (its local `chunks`).
Segments(content, size, overlap, sentences, nltk) ==
    LET cleaned_text == CleanText(content)
    IN  IF sentences THEN ChunkBySentences(cleaned_text, size, overlap, nltk)
        ELSE ChunkByCharacters(cleaned_text, size, overlap)

\* ChunkProcessor.process_document: the list it returns
ProcessDocument(doc, size, overlap, cap, sentences, nltk) ==
    IF doc.content_kind = "absent" THEN <<>>
    ELSE IF doc.content_kind = "none" \/ doc.content = <<>> \/ Strip(doc.content) = <<>>
    THEN <<>>
    ELSE EmitChunks(Segments(doc.content, size, overlap, sentences, nltk), 0, <<>>,
                    IF doc.has_source THEN doc.source ELSE "unknown",
                    doc.metadata, cap)

\* process_document testing `not content.strip()` without `not content`
\* before it: None has no strip
ProcessDocumentRaisesOnNone(doc) == doc.content_kind \notin {"absent", "str"}

\* ChunkProcessor.process_document: whether it raises.  Only the statements
\* before its try block can: `not content or not content.strip()` raises
\* when content is neither falsy nor a str.
ProcessDocumentRaises(doc) == doc.content_kind \notin {"absent", "none", "str"}

\* ChunkProcessor.process_multiple_documents
ProcessMultipleDocuments(docs, size, overlap, cap, sentences, nltk) ==
    Flatten([k \in 1..Len(docs) |->
                ProcessDocument(docs[k], size, overlap, cap, sentences, nltk)])

----------------------------------------------------------------------------
(* rag_config, optional arguments, similarity arithmetic                   *)

\* Python's None for an omitted numeric argument
NoneArg == -1

\* rag_config.default_top_k
DefaultTopK == 5
\* rag_config.similarity_threshold, in tenths (0.7)
DefaultSimilarityThreshold == 7
\* rag_config.max_query_length
MaxQueryLength == 500

\* Python's `x or default` for a numeric x: None and 0 are falsy.
OrDefault(x, default) == IF x = NoneArg \/ x = 0 THEN default ELSE x

\* Vector components are multiples of 1/3, so a squared L2 distance is a
\* whole number d of ninths.  The similarity 1 / (1 + d/9) is kept as the
\* fraction 9 / (9 + d); thresholds are whole numbers of tenths.
Similarity(d) == [num |-> 9, den |-> 9 + d]

\* similarity >= threshold, for a threshold of t tenths
AtLeast(similarity, t) == 10 * similarity.num >= t * similarity.den

\* ChromaDB's distance between two vectors of one dimension (squared L2)
RECURSIVE SquaredL2(_, _)
SquaredL2(u, v) ==
    IF u = <<>> THEN 0
    ELSE (u[1] - v[1]) * (u[1] - v[1]) + SquaredL2(Tail(u), Tail(v))

----------------------------------------------------------------------------
(* EmbeddingModel                                                          *)

\* EmbeddingModel.clean_text: strip, then "".join(text.split())
EmbeddingCleanText(text) ==
    LET keep(c) == ~IsSpace(c) IN SelectSeq(text, keep)

CountOf(text, c) == Cardinality({i \in 1..Len(text) : text[i] = c})

\* SentenceTransformer.encode for one text (an external model): a
\* deterministic map from the text to a vector of fixed dimension, here the
\* counts of "a", of "b" and of every other character.
ModelEncode(text) ==
    <<CountOf(text, "a"), CountOf(text, "b"),
      Len(text) - CountOf(text, "a") - CountOf(text, "b")>>

\* EmbeddingModel.encode_text for a list of texts
EncodeText(texts) == [i \in 1..Len(texts) |-> ModelEncode(EmbeddingCleanText(texts[i]))]

\* EmbeddingModel.encode_query
EncodeQuery(query) == EncodeText(<<Slice(query, 0, MaxQueryLength)>>)[1]

----------------------------------------------------------------------------
(* ChromaDB collection (an external library)                               *)

EntryIds(entries) == {entries[i].id : i \in 1..Len(entries)}

\* collection.add without the dimension test
ChromaAddRaisesNoDimensionTest(dim, ids, embeddings) ==
    \/ Len(ids) = 0
    \/ \E i, j \in 1..Len(ids) : i < j /\ ids[i] = ids[j]

\* Whether collection.add raises: no record, the same id twice in the
\* batch, or a vector whose dimension is not the collection's.
ChromaAddRaises(dim, ids, embeddings) ==
    \/ Len(ids) = 0
    \/ \E i, j \in 1..Len(ids) : i < j /\ ids[i] = ids[j]
    \/ \E i \in 1..Len(embeddings) :
          Len(embeddings[i]) # (IF dim = 0 THEN Len(embeddings[1]) ELSE dim)

\* collection.add when it does not raise: the records whose id the
\* collection does not hold yet are appended, the others are ignored.
ChromaAdd(entries, ids, embeddings, texts, metadatas) ==
    LET fresh(i) == ids[i] \notin EntryIds(entries)
        kept == SelectSeq(Indices(ids), fresh)
    IN  entries \o [k \in 1..Len(kept) |->
                      [id |-> ids[kept[k]], document |-> texts[kept[k]],
                       embedding |-> embeddings[kept[k]],
                       metadata |-> metadatas[kept[k]]]]

\* Whether collection.query raises: n_results not positive, or a query
\* vector whose dimension is not the collection's.
ChromaQueryRaises(dim, query_embedding, n_results) ==
    \/ n_results <= 0
    \/ dim # 0 /\ Len(query_embedding) # dim

\* collection.query when it does not raise: the n_results nearest entries,
\* nearest first (entries at the same distance in insertion order), each
\* with its distance.
ChromaQuery(entries, query_embedding, n_results) ==
    LET dist == [i \in 1..Len(entries) |-> SquaredL2(query_embedding, entries[i].embedding)]
        before(j, i) == dist[j] < dist[i] \/ (dist[j] = dist[i] /\ j < i)
        rank == [i \in 1..Len(entries) |->
                    Cardinality({j \in 1..Len(entries) : before(j, i)})]
        found == IF n_results < Len(entries) THEN n_results ELSE Len(entries)
    IN  [r \in 1..found |->
            LET i == CHOOSE i \in 1..Len(entries) : rank[i] = r - 1
            IN  [document |-> entries[i].document, metadata |-> entries[i].metadata,
                 distance |-> dist[i]]]

----------------------------------------------------------------------------
(* VectorStore                                                             *)

\* VectorStore.add_documents: the ids it hands to collection.add
AddIds(entries, texts, ids, ids_given) ==
    IF ids_given THEN ids
    ELSE [i \in 1..Len(texts) |-> "doc_" \o ToString(Len(entries) + (i - 1))]

\* VectorStore.add_documents: whether it returns True
AddDocumentsOk(entries, dim, texts, embeddings, ids, ids_given) ==
    ~ChromaAddRaises(dim, AddIds(entries, texts, ids, ids_given), embeddings)

\* VectorStore.add_documents: the collection's entries after the call
AddDocuments(entries, dim, texts, embeddings, metadata, ids, ids_given) ==
    IF AddDocumentsOk(entries, dim, texts, embeddings, ids, ids_given)
    THEN ChromaAdd(entries, AddIds(entries, texts, ids, ids_given), embeddings,
                   texts, [i \in 1..Len(metadata) |-> FlattenMetadata(metadata[i])])
    ELSE entries

\* The collection's dimension after an add_documents call
DimensionAfterAdd(entries, dim, texts, embeddings, ids, ids_given) ==
    IF dim = 0 /\ AddDocumentsOk(entries, dim, texts, embeddings, ids, ids_given)
    THEN Len(embeddings[1]) ELSE dim

\* search_similar without the threshold test
SearchSimilarKeepsAll(entries, dim, query_embedding, top_k, similarity_threshold) ==
    IF ChromaQueryRaises(dim, query_embedding, top_k) THEN <<>>
    ELSE LET found == ChromaQuery(entries, query_embedding, top_k)
         IN  [r \in 1..Len(found) |->
                 [document |-> found[r].document,
                  metadata |-> found[r].metadata,
                  similarity_score |-> Similarity(found[r].distance),
                  distance |-> found[r].distance]]

\* VectorStore.search_similar
SearchSimilar(entries, dim, query_embedding, top_k, similarity_threshold) ==
    IF ChromaQueryRaises(dim, query_embedding, top_k) THEN <<>>
    ELSE LET found == ChromaQuery(entries, query_embedding, top_k)
             docs  == [r \in 1..Len(found) |->
                         [document |-> found[r].document,
                          metadata |-> found[r].metadata,
                          similarity_score |-> Similarity(found[r].distance),
                          distance |-> found[r].distance]]
             close(doc) == AtLeast(doc.similarity_score, similarity_threshold)
         IN  SelectSeq(docs, close)

\* VectorStore.get_collection_stats
GetCollectionStats(entries) ==
    [document_count |-> Len(entries),
     status |-> IF Len(entries) > 0 THEN "ready" ELSE "empty"]

\* delete_document emptying the collection
DeleteDocumentDropsAll(entries, ids) ==
    IF \E i \in 1..Len(ids) : ids[i] \in EntryIds(entries) THEN <<>> ELSE entries

\* VectorStore.delete_document: the entries left
DeleteDocument(entries, ids) ==
    LET stays(e) == \A i \in 1..Len(ids) : e.id # ids[i] IN SelectSeq(entries, stays)

----------------------------------------------------------------------------
(* RAGRetriever                                                            *)

\* RAGRetriever._clean_query
CleanQuery(query) == Strip(BlankOutside(JoinSplit(query), QueryAllowed))

\* The chunks index_chunks keeps: those with non-blank content.
ValidChunks(chunk_list) ==
    LET valid(chunk) == chunk.content # <<>> /\ Strip(chunk.content) # <<>>
    IN  SelectSeq(chunk_list, valid)

\* The id index_chunks gives the k-th valid chunk: its chunk_id metadata, or
\* "chunk_<number of ids before it>" when that is missing or empty.
ChunkIdFor(valid, k) ==
    LET meta == valid[k].metadata
    IN  IF MapHas(meta, "chunk_id") /\ MapGet(meta, "chunk_id").t = "str"
           /\ MapGet(meta, "chunk_id").v # ""
        THEN MapGet(meta, "chunk_id").v
        ELSE "chunk_" \o ToString(k - 1)

\* The ids index_chunks hands to add_documents
IndexIds(chunk_list) ==
    LET valid == ValidChunks(chunk_list)
    IN  [k \in 1..Len(valid) |-> ChunkIdFor(valid, k)]

IndexTexts(chunk_list) ==
    LET valid == ValidChunks(chunk_list) IN [k \in 1..Len(valid) |-> valid[k].content]

\* The metadata taken from the first chunks of the input, skipped ones included
IndexMetadatasUnfiltered(chunk_list) ==
    LET valid == ValidChunks(chunk_list) IN [k \in 1..Len(valid) |-> chunk_list[k].metadata]

IndexMetadatas(chunk_list) ==
    LET valid == ValidChunks(chunk_list) IN [k \in 1..Len(valid) |-> valid[k].metadata]

\* RAGRetriever.index_chunks: whether it returns True
IndexChunksOk(ready, entries, dim, chunk_list) ==
    /\ ready
    /\ chunk_list # <<>>
    /\ IndexTexts(chunk_list) # <<>>
    /\ AddDocumentsOk(entries, dim, IndexTexts(chunk_list),
                      EncodeText(IndexTexts(chunk_list)), IndexIds(chunk_list), TRUE)

\* RAGRetriever.index_chunks: the collection's entries after the call
IndexChunks(ready, entries, dim, chunk_list) ==
    IF ready /\ chunk_list # <<>> /\ IndexTexts(chunk_list) # <<>>
    THEN AddDocuments(entries, dim, IndexTexts(chunk_list),
                      EncodeText(IndexTexts(chunk_list)), IndexMetadatas(chunk_list),
                      IndexIds(chunk_list), TRUE)
    ELSE entries

\* The text retrieve hands to encode_query: cleaned, then truncated
QueryForEncoder(query) == Slice(CleanQuery(query), 0, MaxQueryLength)

\* index_chunks encoding the valid texts one call per chunk
IndexTracePerChunk(ready, entries, dim, chunk_list, encoder_raises) ==
    IF ~ready \/ chunk_list = <<>> \/ IndexTexts(chunk_list) = <<>> THEN <<>>
    ELSE [k \in 1..Len(IndexTexts(chunk_list)) |->
             [fn |-> "encode_text", texts |-> <<IndexTexts(chunk_list)[k]>>,
              raised |-> encoder_raises]]
         \o IF encoder_raises THEN <<>>
            ELSE <<[fn |-> "add_documents",
                    documents |-> IndexTexts(chunk_list),
                    embeddings |-> EncodeText(IndexTexts(chunk_list)),
                    metadata |-> IndexMetadatas(chunk_list),
                    ids |-> IndexIds(chunk_list),
                    returned |-> AddDocumentsOk(entries, dim, IndexTexts(chunk_list),
                                    EncodeText(IndexTexts(chunk_list)),
                                    IndexIds(chunk_list), TRUE)]>>

\* The calls index_chunks makes: none when it returns early, else one
\* encode_text over all the valid texts and, unless that raised, one
\* add_documents.
IndexTrace(ready, entries, dim, chunk_list, encoder_raises) ==
    IF ~ready \/ chunk_list = <<>> \/ IndexTexts(chunk_list) = <<>> THEN <<>>
    ELSE LET encode == [fn |-> "encode_text", texts |-> IndexTexts(chunk_list),
                        raised |-> encoder_raises]
         IN  IF encoder_raises THEN <<encode>>
             ELSE <<encode,
                    [fn |-> "add_documents",
                     documents |-> IndexTexts(chunk_list),
                     embeddings |-> EncodeText(IndexTexts(chunk_list)),
                     metadata |-> IndexMetadatas(chunk_list),
                     ids |-> IndexIds(chunk_list),
                     returned |-> AddDocumentsOk(entries, dim, IndexTexts(chunk_list),
                                     EncodeText(IndexTexts(chunk_list)),
                                     IndexIds(chunk_list), TRUE)]>>

\* retrieve reaching the encoder and the store without testing is_ready
RetrieveTraceIgnoresReady(ready, query, top_k, similarity_threshold, failure) ==
    IF query = <<>> \/ Strip(query) = <<>> THEN <<>>
    ELSE <<[fn |-> "encode_query", query |-> QueryForEncoder(query),
            raised |-> (failure = "encoder")],
           [fn |-> "search_similar",
            query_embedding |-> EncodeQuery(QueryForEncoder(query)),
            top_k |-> OrDefault(top_k, DefaultTopK),
            similarity_threshold |->
                OrDefault(similarity_threshold, DefaultSimilarityThreshold),
            raised |-> (failure = "store")]>>

\* The calls retrieve makes: none when it returns early, else one
\* encode_query and, unless that raised, one search_similar. `failure`
\* names the dependency that raises during the call: "encoder", "store"
\* (inside collection.query) or "none".
RetrieveTrace(ready, query, top_k, similarity_threshold, failure) ==
    IF ~ready \/ query = <<>> \/ Strip(query) = <<>> THEN <<>>
    ELSE LET encode == [fn |-> "encode_query", query |-> QueryForEncoder(query),
                        raised |-> (failure = "encoder")]
         IN  IF failure = "encoder" THEN <<encode>>
             ELSE <<encode,
                    [fn |-> "search_similar",
                     query_embedding |-> EncodeQuery(QueryForEncoder(query)),
                     top_k |-> OrDefault(top_k, DefaultTopK),
                     similarity_threshold |->
                         OrDefault(similarity_threshold, DefaultSimilarityThreshold),
                     raised |-> (failure = "store")]>>

LowerOf ==
    [c \in {"A","B","C","D","E","F","G","H","I","J","K","L","M","N","O","P","Q","R",
            "S","T","U","V","W","X","Y","Z"} |->
        CASE c = "A" -> "a" [] c = "B" -> "b" [] c = "C" -> "c" [] c = "D" -> "d"
          [] c = "E" -> "e" [] c = "F" -> "f" [] c = "G" -> "g" [] c = "H" -> "h"
          [] c = "I" -> "i" [] c = "J" -> "j" [] c = "K" -> "k" [] c = "L" -> "l"
          [] c = "M" -> "m" [] c = "N" -> "n" [] c = "O" -> "o" [] c = "P" -> "p"
          [] c = "Q" -> "q" [] c = "R" -> "r" [] c = "S" -> "s" [] c = "T" -> "t"
          [] c = "U" -> "u" [] c = "V" -> "v" [] c = "W" -> "w" [] c = "X" -> "x"
          [] c = "Y" -> "y" [] c = "Z" -> "z"]

\* str.lower()
Lower(s) == [i \in 1..Len(s) |-> IF s[i] \in DOMAIN LowerOf THEN LowerOf[s[i]] ELSE s[i]]

\* s.split(): the words of s
Words(s) ==
    LET isStart(i) == ~IsSpace(s[i]) /\ (i = 1 \/ IsSpace(s[i - 1]))
        starts == SelectSeq(Indices(s), isStart)
    IN  [k \in 1..Len(starts) |->
            SubSeq(s, starts[k], ScanUp(s, starts[k], WhitespaceChars, TRUE) - 1)]

\* word in text
Contains(text, word) ==
    \E i \in 1..(Len(text) - Len(word) + 1) : SubSeq(text, i, i + Len(word) - 1) = word

\* RAGRetriever._analyze_query_match
AnalyzeQueryMatch(doc, query) ==
    LET query_words == Words(Lower(query))
        inDoc(word) == Contains(Lower(doc), word)
        exact_matches == SelectSeq(query_words, inDoc)
    IN  [exact_word_matches |-> Len(exact_matches),
         total_query_words |-> Len(query_words),
         matched_words |-> exact_matches]

\* A filter that one matching key satisfies
PassesFilterOnAnyKey(doc, filter_metadata) ==
    \E f \in 1..Len(filter_metadata.v) :
        /\ MapHas(doc.metadata, filter_metadata.v[f][1])
        /\ MapGet(doc.metadata, filter_metadata.v[f][1]) = filter_metadata.v[f][2]

\* Whether a search result passes the metadata filter of retrieve.
PassesFilter(doc, filter_metadata) ==
    \A f \in 1..Len(filter_metadata.v) :
        /\ MapHas(doc.metadata, filter_metadata.v[f][1])
        /\ MapGet(doc.metadata, filter_metadata.v[f][1]) = filter_metadata.v[f][2]

\* _process_search_results counting the ranks over the unfiltered results
ProcessSearchResultsRankBeforeFilter(similar_docs, original_query, filter_metadata) ==
    LET included(doc) == \/ filter_metadata.t = "none"
                         \/ filter_metadata.v = <<>>
                         \/ PassesFilter(doc, filter_metadata)
        kept == SelectSeq(similar_docs, included)
    IN  [r \in 1..Len(kept) |->
            [content |-> kept[r].document,
             metadata |-> kept[r].metadata,
             similarity_score |-> kept[r].similarity_score,
             distance |-> kept[r].distance,
             relevance_rank |-> r + (Len(similar_docs) - Len(kept)),
             query_match_info |-> AnalyzeQueryMatch(kept[r].document, original_query)]]

\* RAGRetriever._process_search_results; an omitted or empty filter keeps
\* every result.
ProcessSearchResults(similar_docs, original_query, filter_metadata) ==
    LET included(doc) == \/ filter_metadata.t = "none"
                         \/ filter_metadata.v = <<>>
                         \/ PassesFilter(doc, filter_metadata)
        kept == SelectSeq(similar_docs, included)
    IN  [r \in 1..Len(kept) |->
            [content |-> kept[r].document,
             metadata |-> kept[r].metadata,
             similarity_score |-> kept[r].similarity_score,
             distance |-> kept[r].distance,
             relevance_rank |-> r,
             query_match_info |-> AnalyzeQueryMatch(kept[r].document, original_query)]]

\* RAGRetriever.retrieve
Retrieve(ready, entries, dim, query, top_k, similarity_threshold, filter_metadata) ==
    IF ~ready THEN <<>>
    ELSE IF query = <<>> \/ Strip(query) = <<>> THEN <<>>
    ELSE ProcessSearchResults(
             SearchSimilar(entries, dim, EncodeQuery(QueryForEncoder(query)),
                           OrDefault(top_k, DefaultTopK),
                           OrDefault(similarity_threshold, DefaultSimilarityThreshold)),
             query, filter_metadata)

\* conversation_history: None, or a list of turns
NoHistory == [is_none |-> TRUE, turns |-> <<>>]
History(turns) == [is_none |-> FALSE, turns |-> turns]

\* An optional text of a response: None, or the text
NoText == [is_none |-> TRUE, text |-> <<>>]
SomeText(text) == [is_none |-> FALSE, text |-> text]

\* the most characters of history _enhance_query_with_context keeps
MaxContextChars == 200

ContextLabel == <<"C", "o", "n", "t", "e", "x", "t", ":", " ">>
QueryLabel == <<"\n", "Q", "u", "e", "r", "y", ":", " ">>

RECURSIVE JoinTexts(_, _)
\* sep.join(texts) on texts
JoinTexts(texts, sep) ==
    IF texts = <<>> THEN <<>>
    ELSE IF Len(texts) = 1 THEN texts[1]
    ELSE texts[1] \o sep \o JoinTexts(Tail(texts), sep)

\* _enhance_query_with_context joining every turn of the history
EnhanceQueryWithAllTurns(query, conversation_history) ==
    IF conversation_history.is_none \/ conversation_history.turns = <<>> THEN query
    ELSE ContextLabel
         \o Slice(JoinTexts(conversation_history.turns, <<" ">>), 0, MaxContextChars)
         \o QueryLabel \o query

\* RAGRetriever._enhance_query_with_context
EnhanceQueryWithContext(query, conversation_history) ==
    IF conversation_history.is_none \/ conversation_history.turns = <<>> THEN query
    ELSE LET turns == conversation_history.turns
             first == IF Len(turns) > 2 THEN Len(turns) - 2 ELSE 0
             recent == JoinTexts(Slice(turns, first, Len(turns)), <<" ">>)
         IN  ContextLabel \o Slice(recent, 0, MaxContextChars) \o QueryLabel \o query

\* RAGRetriever.retrieve_with_context without keyword arguments
RetrieveWithContext(ready, entries, dim, query, conversation_history) ==
    LET enhanced_query == EnhanceQueryWithContext(query, conversation_history)
        results == Retrieve(ready, entries, dim, enhanced_query,
                            NoneArg, NoneArg, NoneV)
    IN  [query |-> query,
         enhanced_query |-> IF enhanced_query # query THEN SomeText(enhanced_query)
                            ELSE NoText,
         results |-> results,
         total_results |-> Len(results),
         retrieval_metadata |-> [similarity_threshold |-> DefaultSimilarityThreshold,
                                 top_k |-> DefaultTopK]]

----------------------------------------------------------------------------
(* Chunker inputs                                                          *)

\* most sentences a generated document has
MaxSentences == 3

\* lengths (without the closing period) of the generated sentences
SentenceLens == {12, 29, 30, 59, 60}

SentenceLetters == <<"a", "b", "c", "d", "e">>

\* Sentence k of a generated document: n characters, words of four letters
\* separated by single spaces, never ending in a space.
SentenceText(k, n) ==
    [i \in 1..n |-> IF i % 5 = 0 /\ i < n THEN " "
                    ELSE SentenceLetters[((k - 1) % Len(SentenceLetters)) + 1]]

\* The text of the document whose sentences have the lengths `lens`.
RECURSIVE DocText(_, _)
DocText(lens, k) ==
    IF k > Len(lens) THEN <<>>
    ELSE SentenceText(k, lens[k]) \o <<".">>
         \o (IF k < Len(lens) THEN <<" ">> ELSE <<>>) \o DocText(lens, k + 1)

SentenceShapes == UNION {[1..n -> SentenceLens] : n \in 1..MaxSentences}

GeneratedDocs == {Doc(DocText(lens, 1), "gen.txt", MapV(<<>>)) : lens \in SentenceShapes}

ScenarioText ==
    <<"A","I"," ","i","m","p","r","o","v","e","s"," ","s","e","a","r","c","h","."," ",
      "S","e","a","r","c","h"," ","i","m","p","r","o","v","e","s"," ","A","I","."," ",
      "B","o","t","h"," ","e","v","o","l","v","e"," ","t","o","g","e","t","h","e","r",".">>

\* Hand-written documents: empty and whitespace-only content, no content
\* field, characters that _clean_text blanks, the spec's scenario, a
\* document with a two-letter sentence, and one long sentence.
SpecialDocs ==
    { Doc(<<>>, "empty.txt", MapV(<<>>)),
      Doc(<<" ", "\n", "\t", " ">>, "blank.txt", MapV(<<>>)),
      DocNoSource(<<" ">>, MapV(<<>>)),
      DocNoContent("nocontent.txt"),
      DocNoneContent("none.txt"),
      Doc(ScenarioText, "scenario.txt", MapV(<<>>)),
      Doc(<<" ", "#">> \o SentenceText(1, 60) \o <<"#", "\n", "\n">>
          \o SentenceText(2, 30) \o <<"@", ";", " ">>, "special.txt",
          MapV(<< <<"file_type", StrV(".txt")>> >>)),
      Doc(SentenceText(1, 30) \o <<".", " ", "a", "b", ".", " ">> \o SentenceText(2, 59)
          \o <<".">>, "short.txt", MapV(<<>>)),
      DocNoSource(SentenceText(1, 75), MapV(<<>>)) }

\* (chunk_size, chunk_overlap) pairs the chunker is constructed with
ChunkerConfigs == {<<60, 10>>, <<40, 10>>}

\* values of rag_config.max_chunks_per_doc
ChunkCaps == {2, 100}

ChunkerBatches ==
    {<<d>> : d \in GeneratedDocs \cup SpecialDocs}
    \cup {<<d, e>> : d \in SpecialDocs, e \in SpecialDocs}

----------------------------------------------------------------------------
(* Chunker: state machine                                                  *)

\* The state after ChunkProcessor.__init__, with the batch to be processed
\* drawn from `batches`; the other components idle.
InitChunker ==
    /\ documents \in ChunkerBatches
    /\ \E cfg \in ChunkerConfigs : chunk_size = cfg[1] /\ chunk_overlap = cfg[2]
    /\ max_chunks_per_doc \in ChunkCaps
    /\ preserve_sentences \in BOOLEAN
    /\ nltk_available \in BOOLEAN
    /\ cpc = "ready"
    /\ chunks = <<>>
    /\ raised = FALSE
    /\ meta_in = MapV(<<>>)
    /\ meta_out = MapV(<<>>)
    /\ fpc = "idle"
    /\ is_ready = TRUE
    /\ has_collection = TRUE
    /\ collection = <<>>
    /\ dimension = 0
    /\ op = "none"
    /\ args = <<>>
    /\ result = <<>>
    /\ after_clear = FALSE
    /\ trace = <<>>
    /\ loop_text = <<>>
    /\ loop_start = 0
    /\ loop_chunks = <<>>
    /\ lpc = "idle"
    /\ caller_pc = <<>>
    /\ existing_count = <<>>
    /\ caller_documents = <<>>
    /\ caller_result = <<>>
    /\ task_counter = 0
    /\ task_plan = [plan_id |-> "", user_goal |-> <<>>, tasks |-> <<>>]

\* chunk_processor.process_document(documents[0])
CallProcessDocument ==
    /\ cpc = "ready"
    /\ Len(documents) = 1
    /\ raised' = ProcessDocumentRaises(documents[1])
    /\ chunks' = IF raised' THEN <<>>
                 ELSE ProcessDocument(documents[1], chunk_size, chunk_overlap,
                                      max_chunks_per_doc, preserve_sentences, nltk_available)
    /\ cpc' = "process_document"
    /\ UNCHANGED <<documents, chunk_size, chunk_overlap, max_chunks_per_doc,
                   preserve_sentences, nltk_available>>

\* chunk_processor.process_multiple_documents(documents)
CallProcessMultipleDocuments ==
    /\ cpc = "ready"
    /\ raised' = \E k \in 1..Len(documents) : ProcessDocumentRaises(documents[k])
    /\ chunks' = IF raised' THEN <<>>
                 ELSE ProcessMultipleDocuments(documents, chunk_size, chunk_overlap,
                                      max_chunks_per_doc, preserve_sentences, nltk_available)
    /\ cpc' = "process_multiple_documents"
    /\ UNCHANGED <<documents, chunk_size, chunk_overlap, max_chunks_per_doc,
                   preserve_sentences, nltk_available>>

----------------------------------------------------------------------------
(* Metadata flattening: inputs and state machine                           *)

\* deepest nesting of the generated metadata mappings
MaxDepth == 2

MetaLeaves == {IntV(1), ListV(<<IntV(1), IntV(2)>>)}

\* The generated mappings nested at most d deep over the keys "a" and "b".
RECURSIVE MetaMaps(_)
MetaMaps(d) ==
    LET values == IF d = 1 THEN MetaLeaves ELSE MetaLeaves \cup MetaMaps(d - 1)
    IN  {MapV(<<>>)}
        \cup {MapV(<< <<k, x>> >>) : k \in {"a", "b"}, x \in values}
        \cup {MapV(<< <<"a", x>>, <<"b", y>> >>) : x \in values, y \in values}

\* Hand-written mappings: the spec's example, every scalar type, a list
\* holding a string and a mapping, a flat key that a nested path also
\* produces, and an empty-string key.
SpecialMetas ==
    { MapV(<< <<"a", MapV(<< <<"b", IntV(1)>>, <<"c", ListV(<<IntV(1), IntV(2)>>)>> >>)>> >>),
      MapV(<< <<"s", StrV("x")>>, <<"t", BoolV(TRUE)>>, <<"n", NoneV>>,
              <<"m", MapV(<< <<"f", BoolV(FALSE)>>, <<"e", MapV(<<>>)>> >>)>> >>),
      MapV(<< <<"l", ListV(<<StrV("p"), MapV(<< <<"k", NoneV>> >>), ListV(<<>>),
                             BoolV(TRUE)>>)>>, <<"e", ListV(<<>>)>> >>),
      MapV(<< <<"a_b", IntV(1)>>, <<"a", MapV(<< <<"b", IntV(2)>> >>)>> >>),
      MapV(<< <<"a", MapV(<< <<"b", IntV(2)>> >>)>>, <<"a_b", IntV(1)>> >>),
      MapV(<< <<"", MapV(<< <<"b", IntV(1)>> >>)>> >>) }

MetaInputs == MetaMaps(MaxDepth) \cup SpecialMetas

\* A metadata dict about to be flattened; the other components idle, the
\* chunker with the defaults of rag_config.
InitFlatten ==
    /\ meta_in \in MetaInputs
    /\ meta_out = MapV(<<>>)
    /\ fpc = "ready"
    /\ documents = <<>>
    /\ chunk_size = 1000
    /\ chunk_overlap = 200
    /\ max_chunks_per_doc = 100
    /\ preserve_sentences = TRUE
    /\ nltk_available = FALSE
    /\ cpc = "idle"
    /\ chunks = <<>>
    /\ raised = FALSE
    /\ is_ready = TRUE
    /\ has_collection = TRUE
    /\ collection = <<>>
    /\ dimension = 0
    /\ op = "none"
    /\ args = <<>>
    /\ result = <<>>
    /\ after_clear = FALSE
    /\ trace = <<>>
    /\ loop_text = <<>>
    /\ loop_start = 0
    /\ loop_chunks = <<>>
    /\ lpc = "idle"
    /\ caller_pc = <<>>
    /\ existing_count = <<>>
    /\ caller_documents = <<>>
    /\ caller_result = <<>>
    /\ task_counter = 0
    /\ task_plan = [plan_id |-> "", user_goal |-> <<>>, tasks |-> <<>>]

\* vector_store._flatten_metadata(meta_in)
CallFlattenMetadata ==
    /\ fpc = "ready"
    /\ meta_out' = FlattenMetadata(meta_in)
    /\ fpc' = "done"
    /\ UNCHANGED meta_in

vars == <<chunkerVars, flattenVars, storeVars, loopVars, concurrentVars, planVars>>

ChunkerNext ==
    \/ CallProcessDocument /\ UNCHANGED <<flattenVars, storeVars, loopVars, concurrentVars, planVars>>
    \/ CallProcessMultipleDocuments /\ UNCHANGED <<flattenVars, storeVars, loopVars, concurrentVars, planVars>>

SpecChunker == InitChunker /\ [][ChunkerNext]_vars

FlattenNext == CallFlattenMetadata /\ UNCHANGED <<chunkerVars, storeVars, loopVars, concurrentVars, planVars>>

SpecFlatten == InitFlatten /\ [][FlattenNext]_vars

----------------------------------------------------------------------------
(* Hard split: the while loop of _chunk_by_characters, one iteration a step *)

\* longest text handed to the loop
MaxLoopText == 24

\* most windows the loop is followed for
MaxWindows == 30

\* n characters in words of w letters separated by single spaces
WordText(w, n) == [i \in 1..n |-> IF i % (w + 1) = 0 THEN " " ELSE "a"]

LoopTexts ==
    {<<>>} \cup {WordText(w, n) : w \in {3, 4, 9}, n \in (MaxLoopText - 3)..MaxLoopText}

\* (chunk_size, chunk_overlap) pairs with 0 < chunk_overlap < chunk_size
LoopConfigs == {<<10, 2>>, <<10, 5>>, <<10, 9>>}

InitCharLoop ==
    /\ loop_text \in LoopTexts
    /\ \E cfg \in LoopConfigs : chunk_size = cfg[1] /\ chunk_overlap = cfg[2]
    /\ loop_start = 0
    /\ loop_chunks = <<>>
    /\ lpc = "loop"
    /\ documents = <<>>
    /\ max_chunks_per_doc = 100
    /\ preserve_sentences = FALSE
    /\ nltk_available = FALSE
    /\ cpc = "idle"
    /\ chunks = <<>>
    /\ raised = FALSE
    /\ meta_in = MapV(<<>>)
    /\ meta_out = MapV(<<>>)
    /\ fpc = "idle"
    /\ is_ready = TRUE
    /\ has_collection = TRUE
    /\ collection = <<>>
    /\ dimension = 0
    /\ op = "none"
    /\ args = <<>>
    /\ result = <<>>
    /\ after_clear = FALSE
    /\ trace = <<>>
    /\ caller_pc = <<>>
    /\ existing_count = <<>>
    /\ caller_documents = <<>>
    /\ caller_result = <<>>
    /\ task_counter = 0
    /\ task_plan = [plan_id |-> "", user_goal |-> <<>>, tasks |-> <<>>]

\* One iteration of `while start < text_length`: cut the window, append it,
\* then break or move start to end - chunk_overlap.
WindowStep ==
    /\ lpc = "loop"
    /\ loop_start < Len(loop_text)
    /\ Len(loop_chunks) < MaxWindows
    /\ LET w == CharWindow(loop_text, loop_start, chunk_size)
       IN  /\ loop_chunks' = Append(loop_chunks, w.chunk_text)
           /\ IF w.end >= Len(loop_text)
              THEN lpc' = "done" /\ loop_start' = loop_start
              ELSE lpc' = "loop" /\ loop_start' = w.end - chunk_overlap
    /\ UNCHANGED loop_text

\* The loop condition is false: return chunks
LoopExit ==
    /\ lpc = "loop"
    /\ ~(loop_start < Len(loop_text))
    /\ lpc' = "done"
    /\ UNCHANGED <<loop_text, loop_start, loop_chunks>>

CharLoopNext ==
    \/ WindowStep /\ UNCHANGED <<chunk_size, chunk_overlap, documents, max_chunks_per_doc,
                                 preserve_sentences, nltk_available, cpc, chunks, raised,
                                 flattenVars, storeVars, concurrentVars, planVars>>
    \/ LoopExit /\ UNCHANGED <<chunkerVars, flattenVars, storeVars, concurrentVars, planVars>>

SpecCharLoop == InitCharLoop /\ [][CharLoopNext]_vars

----------------------------------------------------------------------------
(* Indexing and retrieval: inputs                                          *)

\* The most entries the collection is let grow to
MaxEntries == 3

TextPlain  == <<"a", "a", "a", "b", "b", "c">>
TextOther  == <<"b", "b", "b", "b">>
TextNear   == <<"a", "a", "a", "a", "b", "b", "c">>
TextPunct  == <<"a", ";", ";", "b">>
TextSpaced == <<"a", " ", "b">>
TextBlank  == <<" ">>

PdfMeta(chunk_id) ==
    MapV(<< <<"chunk_id", StrV(chunk_id)>>, <<"chunk_index", IntV(0)>>,
            <<"file_type", StrV(".pdf")>> >>)

\* Two chunks of different file types with chunk ids, and a blank chunk
\* between them.
BatchMixed ==
    << [content |-> TextPlain, metadata |-> PdfMeta("p_chunk_0")],
       [content |-> TextBlank, metadata |-> PdfMeta("p_chunk_1")],
       [content |-> TextOther,
        metadata |-> MapV(<< <<"chunk_id", StrV("t_chunk_0")>>, <<"chunk_index", IntV(0)>>,
                             <<"file_type", StrV(".txt")>> >>)] >>

\* A blank chunk, then a chunk without a chunk_id whose text holds
\* characters query cleaning blanks out.
BatchPunct ==
    << [content |-> TextBlank, metadata |-> PdfMeta("blank_chunk_0")],
       [content |-> TextPunct,
        metadata |-> MapV(<< <<"chunk_index", IntV(1)>>, <<"file_type", StrV(".pdf")>> >>)] >>

\* A chunk with nested metadata, under a chunk id BatchMixed uses too.
BatchSpaced ==
    << [content |-> TextSpaced,
        metadata |-> MapV(<< <<"chunk_id", StrV("t_chunk_0")>>,
                             <<"source_metadata",
                               MapV(<< <<"file_type", StrV(".pdf")>> >>)>> >>)] >>

ChunkBatches == {BatchMixed, BatchPunct, BatchSpaced, <<>>}

\* The documents the chunker is given before indexing: one document as
\* load_document builds it for a PDF file (file_type of its metadata), or two
\* documents without a source and two with the same source.
PipelineBatches ==
    { << Doc(DocText(<<60, 29, 30>>, 1), "gen.pdf",
             MapV(<< <<"file_type", StrV(".pdf")>> >>)) >>,
      << DocNoSource(DocText(<<59>>, 1), MapV(<<>>)),
         Doc(DocText(<<59>>, 1), "same.txt", MapV(<<>>)),
         DocNoSource(DocText(<<60>>, 1), MapV(<<>>)),
         Doc(DocText(<<60>>, 1), "same.txt", MapV(<<>>)) >> }

FilterNone == NoneV
FilterEmpty == MapV(<<>>)
FilterPdf == MapV(<< <<"file_type", StrV(".pdf")>> >>)
FilterPdfFirst == MapV(<< <<"file_type", StrV(".pdf")>>, <<"chunk_index", IntV(0)>> >>)

\* The histories retrieve_with_context is given: none, an empty one, one
\* turn, three turns, and two turns longer together than the context limit.
Histories ==
    LET TurnOne == <<"a", "b">>
        TurnTwo == <<"b", "?">>
        TurnThree == <<"c", " ", "c">>
        TurnLong == [i \in 1..(MaxContextChars + 5) |-> IF i % 2 = 0 THEN "a" ELSE "b"]
    IN  { NoHistory, History(<<>>), History(<<TurnOne>>),
          History(<<TurnOne, TurnTwo, TurnThree>>), History(<<TurnTwo, TurnLong>>) }

\* The dependency that raises during a retrieve call
Failures == {"none", "encoder", "store"}

\* retrieve with every optional argument omitted
DefaultSettings == <<NoneArg, NoneArg, FilterNone>>

\* <<top_k, similarity_threshold (tenths), filter_metadata>> of a retrieve call
RetrieveSettings ==
    { <<NoneArg, NoneArg, FilterNone>>,
      <<NoneArg, 5, FilterNone>>,
      <<1, 5, FilterNone>>,
      <<0, 0, FilterEmpty>>,
      <<2, 0, FilterNone>>,
      <<NoneArg, 1, FilterPdf>>,
      <<NoneArg, 1, FilterPdfFirst>> }

FixedQueries == {TextNear, TextBlank}

\* <<query_embedding, top_k, similarity_threshold (tenths)>> of a
\* search_similar call; the last has a vector of another dimension.
SearchCalls ==
    { <<<<4, 2, 1>>, 5, 5>>, <<<<4, 2, 1>>, 5, 3>>, <<<<4, 2, 1>>, 5, 9>>,
      <<<<4, 2, 1>>, 5, 10>>, <<<<4, 2, 1>>, 1, 3>>, <<<<4, 2, 1>>, 0, 5>>,
      <<<<1, 1>>, 5, 5>> }

----------------------------------------------------------------------------
(* Indexing and retrieval: actions                                         *)

Init ==
    /\ is_ready \in BOOLEAN
    /\ has_collection = is_ready
    /\ collection = <<>>
    /\ dimension = 0
    /\ op = "none"
    /\ args = <<>>
    /\ result = <<>>
    /\ after_clear = FALSE
    /\ trace = <<>>
    /\ documents \in PipelineBatches
    /\ chunk_size = 60
    /\ chunk_overlap = 10
    /\ max_chunks_per_doc = 100
    /\ preserve_sentences = TRUE
    /\ nltk_available = FALSE
    /\ cpc = "ready"
    /\ chunks = <<>>
    /\ raised = FALSE
    /\ meta_in = MapV(<<>>)
    /\ meta_out = MapV(<<>>)
    /\ fpc = "idle"
    /\ loop_text = <<>>
    /\ loop_start = 0
    /\ loop_chunks = <<>>
    /\ lpc = "idle"
    /\ caller_pc = <<>>
    /\ existing_count = <<>>
    /\ caller_documents = <<>>
    /\ caller_result = <<>>
    /\ task_counter = 0
    /\ task_plan = [plan_id |-> "", user_goal |-> <<>>, tasks |-> <<>>]

\* RAGRetriever.index_chunks(chunk_list)
CallIndexChunks ==
    \E chunk_list \in ChunkBatches \cup {chunks}, encoder_raises \in BOOLEAN :
        /\ Len(IndexChunks(is_ready, collection, dimension, chunk_list)) <= MaxEntries
        /\ op' = "index_chunks"
        /\ args' = [chunks |-> chunk_list, ids |-> IndexIds(chunk_list)]
        /\ trace' = IndexTrace(is_ready, collection, dimension, chunk_list, encoder_raises)
        /\ result' = (~encoder_raises
                       /\ IndexChunksOk(is_ready, collection, dimension, chunk_list))
        /\ collection' = IF encoder_raises THEN collection
                         ELSE IndexChunks(is_ready, collection, dimension, chunk_list)
        /\ dimension' = IF ~encoder_raises /\ is_ready /\ chunk_list # <<>>
                           /\ IndexTexts(chunk_list) # <<>>
                        THEN DimensionAfterAdd(collection, dimension, IndexTexts(chunk_list),
                                 EncodeText(IndexTexts(chunk_list)), IndexIds(chunk_list), TRUE)
                        ELSE dimension
        /\ after_clear' = (op = "clear_index")
        /\ UNCHANGED <<is_ready, has_collection>>

\* RAGRetriever.retrieve(query, top_k, similarity_threshold, filter_metadata)
CallRetrieve ==
    \E query \in FixedQueries \cup {collection[i].document : i \in 1..Len(collection)},
       settings \in RetrieveSettings :
      \E failure \in IF settings = DefaultSettings /\ query \in FixedQueries
                      THEN Failures ELSE {"none"} :
        /\ op' = "retrieve"
        /\ args' = [query |-> query, top_k |-> settings[1],
                    similarity_threshold |-> settings[2], filter_metadata |-> settings[3]]
        /\ trace' = RetrieveTrace(is_ready, query, settings[1], settings[2], failure)
        /\ result' = IF failure # "none" THEN <<>>
                     ELSE Retrieve(is_ready, collection, dimension, query,
                                   settings[1], settings[2], settings[3])
        /\ after_clear' = (op = "clear_index")
        /\ UNCHANGED <<is_ready, has_collection, collection, dimension>>

\* RAGRetriever.retrieve_with_context(query, conversation_history)
CallRetrieveWithContext ==
    \E history \in Histories :
        /\ op' = "retrieve_with_context"
        /\ args' = [query |-> TextNear, conversation_history |-> history]
        /\ trace' = RetrieveTrace(is_ready, EnhanceQueryWithContext(TextNear, history),
                                  NoneArg, NoneArg, "none")
        /\ result' = RetrieveWithContext(is_ready, collection, dimension, TextNear, history)
        /\ after_clear' = (op = "clear_index")
        /\ UNCHANGED <<is_ready, has_collection, collection, dimension>>

\* VectorStore.search_similar(query_embedding, top_k, similarity_threshold)
CallSearchSimilar ==
    \E call \in SearchCalls :
        /\ is_ready
        /\ op' = "search_similar"
        /\ args' = [query_embedding |-> call[1], top_k |-> call[2],
                    similarity_threshold |-> call[3]]
        /\ result' = IF has_collection
                     THEN SearchSimilar(collection, dimension, call[1], call[2], call[3])
                     ELSE <<>>
        /\ trace' = <<>>
        /\ after_clear' = (op = "clear_index")
        /\ UNCHANGED <<is_ready, has_collection, collection, dimension>>

\* clear_index failing on a collection that is already empty
CallClearIndexFailsWhenEmpty ==
    /\ op' = "clear_index"
    /\ args' = <<>>
    /\ trace' = IF is_ready THEN <<[fn |-> "clear_collection"]>> ELSE <<>>
    /\ result' = (is_ready /\ collection # <<>>)
    /\ collection' = IF is_ready THEN <<>> ELSE collection
    /\ dimension' = IF is_ready THEN 0 ELSE dimension
    /\ after_clear' = (op = "clear_index")
    /\ UNCHANGED <<is_ready, has_collection>>

\* RAGRetriever.clear_index(), through VectorStore.clear_collection()
CallClearIndex ==
    /\ op' = "clear_index"
    /\ args' = <<>>
    /\ trace' = IF is_ready THEN <<[fn |-> "clear_collection"]>> ELSE <<>>
    /\ result' = is_ready
    /\ collection' = IF is_ready THEN <<>> ELSE collection
    /\ dimension' = IF is_ready THEN 0 ELSE dimension
    /\ after_clear' = (op = "clear_index")
    /\ UNCHANGED <<is_ready, has_collection>>

\* RAGRetriever.get_retriever_stats()
CallGetRetrieverStats ==
    /\ op' = "get_retriever_stats"
    /\ args' = <<>>
    /\ trace' = IF is_ready
                THEN <<[fn |-> "get_collection_stats"], [fn |-> "get_model_info"]>>
                ELSE <<>>
    /\ result' = IF is_ready
                 THEN [status |-> "ready", vector_store |-> GetCollectionStats(collection)]
                 ELSE [status |-> "not_ready"]
    /\ after_clear' = (op = "clear_index")
    /\ UNCHANGED <<is_ready, has_collection, collection, dimension>>

Next ==
    \/ CallProcessMultipleDocuments /\ UNCHANGED <<flattenVars, storeVars, loopVars, concurrentVars, planVars>>
    \/ CallIndexChunks /\ UNCHANGED <<chunkerVars, flattenVars, loopVars, concurrentVars, planVars>>
    \/ CallRetrieve /\ UNCHANGED <<chunkerVars, flattenVars, loopVars, concurrentVars, planVars>>
    \/ CallRetrieveWithContext /\ UNCHANGED <<chunkerVars, flattenVars, loopVars, concurrentVars, planVars>>
    \/ CallSearchSimilar /\ UNCHANGED <<chunkerVars, flattenVars, loopVars, concurrentVars, planVars>>
    \/ CallClearIndex /\ UNCHANGED <<chunkerVars, flattenVars, loopVars, concurrentVars, planVars>>
    \/ CallGetRetrieverStats /\ UNCHANGED <<chunkerVars, flattenVars, loopVars, concurrentVars, planVars>>

Spec == Init /\ [][Next]_vars

----------------------------------------------------------------------------
(* Vector store: inputs and state machine                                  *)

TextNew == <<"c", "c">>

MdMeta == MapV(<< <<"file_type", StrV(".md")>> >>)

\* The add_documents calls: documents, embeddings, metadata and ids (none
\* when ids_given is FALSE).
AddCalls ==
    { [documents |-> <<TextNear>>, embeddings |-> <<<<4, 2, 1>>>>,
       metadata |-> <<MdMeta>>, ids |-> <<>>, ids_given |-> FALSE],
      [documents |-> <<TextPlain, TextOther>>, embeddings |-> <<<<3, 2, 1>>, <<0, 4, 0>>>>,
       metadata |-> <<MdMeta, MdMeta>>, ids |-> <<"x", "y">>, ids_given |-> TRUE],
      [documents |-> <<TextNew>>, embeddings |-> <<<<0, 0, 2>>>>,
       metadata |-> <<MdMeta>>, ids |-> <<"x">>, ids_given |-> TRUE],
      [documents |-> <<TextSpaced>>, embeddings |-> <<<<1, 1>>>>,
       metadata |-> <<MdMeta>>, ids |-> <<>>, ids_given |-> FALSE],
      [documents |-> <<TextPlain, TextOther>>, embeddings |-> <<<<3, 2, 1>>, <<0, 4>>>>,
       metadata |-> <<MdMeta, MdMeta>>, ids |-> <<"u", "v">>, ids_given |-> TRUE],
      [documents |-> <<TextPlain, TextOther>>, embeddings |-> <<<<3, 2, 1>>, <<0, 4, 0>>>>,
       metadata |-> <<MdMeta, MdMeta>>, ids |-> <<"w", "w">>, ids_given |-> TRUE] }

DeleteCalls == {<<"x">>, <<"doc_0", "missing">>}

InitStore ==
    /\ has_collection \in BOOLEAN
    /\ is_ready = TRUE
    /\ collection = <<>>
    /\ dimension = 0
    /\ op = "none"
    /\ args = <<>>
    /\ result = <<>>
    /\ after_clear = FALSE
    /\ trace = <<>>
    /\ documents = <<>>
    /\ chunk_size = 1000
    /\ chunk_overlap = 200
    /\ max_chunks_per_doc = 100
    /\ preserve_sentences = TRUE
    /\ nltk_available = FALSE
    /\ cpc = "idle"
    /\ chunks = <<>>
    /\ raised = FALSE
    /\ meta_in = MapV(<<>>)
    /\ meta_out = MapV(<<>>)
    /\ fpc = "idle"
    /\ loop_text = <<>>
    /\ loop_start = 0
    /\ loop_chunks = <<>>
    /\ lpc = "idle"
    /\ caller_pc = <<>>
    /\ existing_count = <<>>
    /\ caller_documents = <<>>
    /\ caller_result = <<>>
    /\ task_counter = 0
    /\ task_plan = [plan_id |-> "", user_goal |-> <<>>, tasks |-> <<>>]

\* VectorStore.add_documents(documents, embeddings, metadata, ids)
CallAddDocuments ==
    \E call \in AddCalls :
        /\ Len(collection) + Len(call.documents) <= MaxEntries
        /\ op' = "add_documents"
        /\ args' = call
        /\ trace' = <<>>
        /\ result' = (has_collection /\ AddDocumentsOk(collection, dimension, call.documents,
                                            call.embeddings, call.ids, call.ids_given))
        /\ collection' = IF has_collection
                         THEN AddDocuments(collection, dimension, call.documents,
                                  call.embeddings, call.metadata, call.ids, call.ids_given)
                         ELSE collection
        /\ dimension' = IF has_collection
                        THEN DimensionAfterAdd(collection, dimension, call.documents,
                                 call.embeddings, call.ids, call.ids_given)
                        ELSE dimension
        /\ after_clear' = (op = "clear_index")
        /\ UNCHANGED <<is_ready, has_collection>>

\* VectorStore.delete_document(ids)
CallDeleteDocument ==
    \E ids \in DeleteCalls :
        /\ op' = "delete_document"
        /\ args' = [ids |-> ids]
        /\ trace' = <<>>
        /\ result' = has_collection
        /\ collection' = IF has_collection THEN DeleteDocument(collection, ids) ELSE collection
        /\ after_clear' = (op = "clear_index")
        /\ UNCHANGED <<is_ready, has_collection, dimension>>

\* VectorStore.clear_collection()
CallClearCollection ==
    /\ op' = "clear_collection"
    /\ args' = <<>>
    /\ trace' = <<>>
    /\ result' = has_collection
    /\ collection' = IF has_collection THEN <<>> ELSE collection
    /\ dimension' = IF has_collection THEN 0 ELSE dimension
    /\ after_clear' = (op = "clear_index")
    /\ UNCHANGED <<is_ready, has_collection>>

\* VectorStore.get_collection_stats()
CallGetCollectionStats ==
    /\ op' = "get_collection_stats"
    /\ args' = <<>>
    /\ trace' = <<>>
    /\ result' = IF has_collection THEN GetCollectionStats(collection)
                 ELSE [error |-> "Vector store not initialized"]
    /\ after_clear' = (op = "clear_index")
    /\ UNCHANGED <<is_ready, has_collection, collection, dimension>>

StoreNext ==
    \/ CallAddDocuments /\ UNCHANGED <<chunkerVars, flattenVars, loopVars, concurrentVars, planVars>>
    \/ CallSearchSimilar /\ UNCHANGED <<chunkerVars, flattenVars, loopVars, concurrentVars, planVars>>
    \/ CallDeleteDocument /\ UNCHANGED <<chunkerVars, flattenVars, loopVars, concurrentVars, planVars>>
    \/ CallClearCollection /\ UNCHANGED <<chunkerVars, flattenVars, loopVars, concurrentVars, planVars>>
    \/ CallGetCollectionStats /\ UNCHANGED <<chunkerVars, flattenVars, loopVars, concurrentVars, planVars>>

SpecStore == InitStore /\ [][StoreNext]_vars

----------------------------------------------------------------------------
(* Concurrent add_documents calls without ids on one collection            *)

\* most documents one caller adds
MaxBatch == 2

\* The two store handles of a RAGSystem: its own and its retriever's
Callers == {"vector_store", "retriever.vector_store"}

\* The documents a caller may add
CallerBatches ==
    [Callers -> {SubSeq(<<TextPlain, TextOther, TextNear>>, 1, n) : n \in 1..MaxBatch}]

\* The collection the callers start on: empty, or holding one entry
StartCollections ==
    { <<>>,
      <<[id |-> "doc_0", document |-> TextNew, embedding |-> EncodeText(<<TextNew>>)[1],
         metadata |-> MdMeta]>> }

InitConcurrent ==
    /\ caller_pc = [c \in Callers |-> "count"]
    /\ existing_count = [c \in Callers |-> 0]
    /\ caller_documents \in CallerBatches
    /\ caller_result = [c \in Callers |-> FALSE]
    /\ collection \in StartCollections
    /\ dimension = IF collection = <<>> THEN 0 ELSE 3
    /\ is_ready = TRUE
    /\ has_collection = TRUE
    /\ op = "none"
    /\ args = <<>>
    /\ result = <<>>
    /\ after_clear = FALSE
    /\ trace = <<>>
    /\ documents = <<>>
    /\ chunk_size = 1000
    /\ chunk_overlap = 200
    /\ max_chunks_per_doc = 100
    /\ preserve_sentences = TRUE
    /\ nltk_available = FALSE
    /\ cpc = "idle"
    /\ chunks = <<>>
    /\ raised = FALSE
    /\ meta_in = MapV(<<>>)
    /\ meta_out = MapV(<<>>)
    /\ fpc = "idle"
    /\ loop_text = <<>>
    /\ loop_start = 0
    /\ loop_chunks = <<>>
    /\ lpc = "idle"
    /\ task_counter = 0
    /\ task_plan = [plan_id |-> "", user_goal |-> <<>>, tasks |-> <<>>]

\* The ids a caller generates from the count it read
CallerIds(c) ==
    [i \in 1..Len(caller_documents[c]) |-> "doc_" \o ToString(existing_count[c] + (i - 1))]

\* existing_count = self.collection.count()
ReadCount(c) ==
    /\ caller_pc[c] = "count"
    /\ existing_count' = [existing_count EXCEPT ![c] = Len(collection)]
    /\ caller_pc' = [caller_pc EXCEPT ![c] = "add"]
    /\ UNCHANGED <<caller_documents, caller_result, storeVars>>

\* self.collection.add(...) with the generated ids, and the return
Insert(c) ==
    /\ caller_pc[c] = "add"
    /\ LET texts == caller_documents[c]
           raises == ChromaAddRaises(dimension, CallerIds(c), EncodeText(texts))
       IN  /\ caller_result' = [caller_result EXCEPT ![c] = ~raises]
           /\ collection' = IF raises THEN collection
                            ELSE ChromaAdd(collection, CallerIds(c), EncodeText(texts), texts,
                                           [i \in 1..Len(texts) |-> FlattenMetadata(MdMeta)])
           /\ dimension' = IF dimension = 0 /\ ~raises THEN 3 ELSE dimension
    /\ caller_pc' = [caller_pc EXCEPT ![c] = "done"]
    /\ UNCHANGED <<existing_count, caller_documents, is_ready, has_collection, op, args,
                   result, after_clear, trace>>

ConcurrentNext ==
    \/ \E c \in Callers : ReadCount(c) /\ UNCHANGED <<chunkerVars, flattenVars, loopVars, planVars>>
    \/ \E c \in Callers : Insert(c) /\ UNCHANGED <<chunkerVars, flattenVars, loopVars, planVars>>

SpecConcurrent == InitConcurrent /\ [][ConcurrentNext]_vars

\* C25: when two add_documents calls without ids have both returned, the id
\* sets they generated are disjoint and every document of both calls is in
\* the collection under its generated id.
C25_ConcurrentAddsDisjoint ==
    (\A c \in Callers : caller_pc[c] = "done") =>
        /\ \A c, d \in Callers :
               c # d => \A i \in 1..Len(CallerIds(c)), j \in 1..Len(CallerIds(d)) :
                            CallerIds(c)[i] # CallerIds(d)[j]
        /\ \A c \in Callers : \A i \in 1..Len(caller_documents[c]) :
               \E e \in 1..Len(collection) :
                   /\ collection[e].id = CallerIds(c)[i]
                   /\ collection[e].document = caller_documents[c][i]

\* When one call returns before the other reads the count, the ids are
\* disjoint and everything is stored.
SequentialAddsDisjoint ==
    (/\ \A c \in Callers : caller_pc[c] = "done"
     /\ \E c, d \in Callers : existing_count[d] = existing_count[c] + Len(caller_documents[c])) =>
        \A c \in Callers : \A i \in 1..Len(caller_documents[c]) :
            \E e \in 1..Len(collection) :
                /\ collection[e].id = CallerIds(c)[i]
                /\ collection[e].document = caller_documents[c][i]

----------------------------------------------------------------------------
(* Task plans: TaskDecomposer (src/src/workflow/task_decomposer.py)        *)

\* most plans one TaskDecomposer makes
MaxPlans == 2

\* int(time.time()) at the calls
Times == {1, 2}

\* self.task_template, as __init__ loads it with load_task_template
TaskTemplate ==
    [template_name \in {"research-analysis", "market_analysis", "competitive_analysis",
                        "simple_research"} |->
        CASE template_name = "research-analysis" ->
                 <<"supervisor", "research_agent", "web_researcher", "analyst", "writer">>
          [] template_name = "market_analysis" ->
                 <<"supervisor", "web_researcher", "research_agent", "analyst", "writer">>
          [] template_name = "competitive_analysis" ->
                 <<"supervisor", "research_agent", "web_researcher", "analyst", "writer">>
          [] template_name = "simple_research" ->
                 <<"supervisor", "research_agent", "writer">>]

\* any(word in goal_lower for word in words)
AnyWordIn(goal_lower, words) == \E word \in words : Contains(goal_lower, word)

\* TaskDecomposer.select_template
SelectTemplate(user_goal) ==
    LET goal_lower == Lower(user_goal)
    IN  IF AnyWordIn(goal_lower,
        {<<"l", "a", "t", "e", "s", "t">>,
         <<"n", "e", "w", "s">>,
         <<"c", "u", "r", "r", "e", "n", "t">>,
         <<"r", "e", "c", "e", "n", "t">>,
         <<"u", "p", "d", "a", "t", "e">>})
        THEN "comprehensive"
        ELSE IF AnyWordIn(goal_lower,
        {<<"d", "e", "t", "a", "i", "l">>,
         <<"a", "i">>,
         <<"c", "o", "d", "e">>})
        THEN "search_analysis"
        ELSE IF AnyWordIn(goal_lower,
        {<<"r", "e", "s", "e", "r", "c", "h">>,
         <<"s", "e", "a", "r", "c", "h">>,
         <<"a", "i">>,
         <<"c", "o", "d", "e">>})
        THEN "research_analysis"
        ELSE IF AnyWordIn(goal_lower,
        {<<"m", "a", "r", "k", "e", "t">>,
         <<"i", "n", "d", "u", "s", "t", "r", "y">>,
         <<"s", "e", "c", "t", "o", "r">>,
         <<"s", "t", "o", "c", "k">>})
        THEN "market_analysis"
        ELSE IF AnyWordIn(goal_lower,
        {<<"c", "o", "m", "p", "e", "t", "i", "t", "o", "r">>,
         <<"c", "o", "m", "p", "e", "t", "i", "t", "i", "v", "e">>,
         <<"c", "o", "m", "p", "a", "r", "e">>})
        THEN "competitive_analysis"
        ELSE "comprehensive"

\* A Task: the fields readiness depends on and the agent it is for (the
\* description, result and created_at texts are left out)
Task(id, agent_type, priority, dependencies) ==
    [id |-> id, agent_type |-> agent_type, priority |-> priority,
     dependencies |-> dependencies, status |-> "pending"]

\* TaskDecomposer.create_fallback_plan
CreateFallbackPlan(user_goal, now) ==
    LET plan_id == "fallback_" \o ToString(now)
    IN  [plan_id |-> plan_id, user_goal |-> user_goal,
         tasks |-> << Task(plan_id \o "_task_1", "supervisor", "normal", <<>>),
                      Task(plan_id \o "_task_2", "research_agent", "normal",
                           <<plan_id \o "_task_1">>),
                      Task(plan_id \o "_task_3", "web_researcher", "normal",
                           <<plan_id \o "_task_2">>),
                      Task(plan_id \o "_task_4", "analyst", "normal",
                           <<plan_id \o "_task_3">>),
                      Task(plan_id \o "_task_5", "writer", "normal",
                           <<plan_id \o "_task_4">>) >>]

\* The dependencies decompose_task gives the task at index i (from 0) of the
\* agent sequence
DependenciesOfStep(plan_id, i) ==
    IF i > 0 THEN <<plan_id \o "_task" \o ToString(i)>> ELSE <<>>

\* TaskDecomposer.decompose_task: the plan it returns when the counter is
\* `counter` and the clock reads `now`; a template name that task_template
\* lacks raises KeyError, which the except clause turns into the fallback plan.
DecomposeTask(user_goal, counter, now) ==
    LET plan_id == "plan_" \o ToString(now) \o "_" \o ToString(counter)
        template_name == SelectTemplate(user_goal)
    IN  IF template_name \notin DOMAIN TaskTemplate
        THEN CreateFallbackPlan(user_goal, now)
        ELSE LET agent_sequence == TaskTemplate[template_name]
             IN  [plan_id |-> plan_id, user_goal |-> user_goal,
                  tasks |-> [k \in 1..Len(agent_sequence) |->
                      Task(plan_id \o "_task_" \o ToString(k), agent_sequence[k],
                           IF agent_sequence[k] = "supervisor" THEN "high" ELSE "normal",
                           DependenciesOfStep(plan_id, k - 1))]]

\* TaskDecomposer.get_next_ready_task: the positions of the ready tasks
GetNextReadyTask(plan) ==
    {k \in 1..Len(plan.tasks) :
        /\ plan.tasks[k].status = "pending"
        /\ \A d \in 1..Len(plan.tasks[k].dependencies) :
               \E j \in 1..Len(plan.tasks) :
                   /\ plan.tasks[j].id = plan.tasks[k].dependencies[d]
                   /\ plan.tasks[j].status = "completed"}

\* The goals decompose_task is given: one for each branch of select_template
Goals ==
    { <<"L", "a", "t", "e", "s", "t", " ", "n", "e", "w", "s">>,
      <<"c", "o", "d", "e">>,
      <<"s", "e", "a", "r", "c", "h">>,
      <<"S", "t", "o", "c", "k", " ", "m", "a", "r", "k", "e", "t">>,
      <<"c", "o", "m", "p", "a", "r", "e">>,
      <<"p", "l", "a", "n">> }

InitPlan ==
    /\ task_counter = 0
    /\ task_plan = [plan_id |-> "", user_goal |-> <<>>, tasks |-> <<>>]
    /\ documents = <<>>
    /\ chunk_size = 1000
    /\ chunk_overlap = 200
    /\ max_chunks_per_doc = 100
    /\ preserve_sentences = TRUE
    /\ nltk_available = FALSE
    /\ cpc = "idle"
    /\ chunks = <<>>
    /\ raised = FALSE
    /\ meta_in = MapV(<<>>)
    /\ meta_out = MapV(<<>>)
    /\ fpc = "idle"
    /\ is_ready = FALSE
    /\ has_collection = FALSE
    /\ collection = <<>>
    /\ dimension = 0
    /\ op = "none"
    /\ args = <<>>
    /\ result = <<>>
    /\ after_clear = FALSE
    /\ trace = <<>>
    /\ loop_text = <<>>
    /\ loop_start = 0
    /\ loop_chunks = <<>>
    /\ lpc = "idle"
    /\ caller_pc = <<>>
    /\ existing_count = <<>>
    /\ caller_documents = <<>>
    /\ caller_result = <<>>

\* task_plan = decomposer.decompose_task(user_goal)
CallDecomposeTask ==
    \E user_goal \in Goals, now \in Times :
        /\ task_counter < MaxPlans
        /\ task_plan' = DecomposeTask(user_goal, task_counter, now)
        /\ task_counter' = task_counter + 1

\* The caller runs one of the tasks get_next_ready_task returned and marks
\* it completed
CompleteReadyTask ==
    \E k \in GetNextReadyTask(task_plan) :
        /\ task_plan' = [task_plan EXCEPT !.tasks[k].status = "completed"]
        /\ UNCHANGED task_counter

PlanNext ==
    \/ CallDecomposeTask /\ UNCHANGED <<chunkerVars, flattenVars, storeVars, loopVars, concurrentVars>>
    \/ CompleteReadyTask /\ UNCHANGED <<chunkerVars, flattenVars, storeVars, loopVars, concurrentVars>>

SpecPlan == InitPlan /\ [][PlanNext]_vars

\* C30: in the plan decompose_task returned, every dependency id of a task is
\* the id of an earlier task of the plan, and while a task is pending
\* get_next_ready_task returns a task to complete, so completing the returned
\* tasks reaches every task.
C30_PlanProgress ==
    /\ \A k \in 1..Len(task_plan.tasks) :
           \A d \in 1..Len(task_plan.tasks[k].dependencies) :
               \E j \in 1..(k - 1) : task_plan.tasks[j].id = task_plan.tasks[k].dependencies[d]
    /\ (\E k \in 1..Len(task_plan.tasks) : task_plan.tasks[k].status = "pending") =>
           GetNextReadyTask(task_plan) # {}

\* The same for the fallback plans: their dependency ids name earlier tasks
\* and a pending task always leaves a ready one.
FallbackPlanProgress ==
    (task_plan.tasks # <<>> /\ SelectTemplate(task_plan.user_goal) \notin DOMAIN TaskTemplate) =>
        /\ \A k \in 1..Len(task_plan.tasks) :
               \A d \in 1..Len(task_plan.tasks[k].dependencies) :
                   \E j \in 1..(k - 1) :
                       task_plan.tasks[j].id = task_plan.tasks[k].dependencies[d]
        /\ (\E k \in 1..Len(task_plan.tasks) : task_plan.tasks[k].status = "pending") =>
               GetNextReadyTask(task_plan) # {}

----------------------------------------------------------------------------
(* Indexing and retrieval: properties                                      *)

\* The text the encoder is given when a chunk with content T is indexed
IndexEncoderText(T) == EmbeddingCleanText(T)

\* The text the encoder is given when T is the query of retrieve
QueryEncoderText(T) ==
    EmbeddingCleanText(Slice(QueryForEncoder(T), 0, MaxQueryLength))

Stored(T) == \E i \in 1..Len(collection) : collection[i].document = T

DefaultRetrieve ==
    /\ op = "retrieve"
    /\ is_ready
    /\ args.top_k = NoneArg
    /\ args.similarity_threshold = NoneArg
    /\ args.filter_metadata = FilterNone

\* C2: after a chunk with content T has been indexed, retrieve(T) with
\* default settings hands the encoder the text it was handed when T was
\* indexed, and returns that chunk first, at distance 0 (similarity 1.0).
C2_RoundTrip ==
    DefaultRetrieve /\ Stored(args.query) =>
        /\ QueryEncoderText(args.query) = IndexEncoderText(args.query)
        /\ result # <<>>
        /\ result[1].content = args.query
        /\ result[1].distance = 0

\* The top_k entries nearest to the query vector of the last search_similar
\* call, nearest first.
NearestOfCall == ChromaQuery(collection, args.query_embedding, args.top_k)

\* The distances from the query of the last retrieve call to the entries
DistancesOfQuery ==
    {SquaredL2(EncodeQuery(QueryForEncoder(args.query)), collection[i].embedding) :
        i \in 1..Len(collection)}

\* Two stored entries, of similarity 0.9 and 0.3 to the query, and a
\* retrieve with similarity_threshold = 0.5.
ThresholdScenario ==
    /\ op = "retrieve"
    /\ is_ready
    /\ Len(collection) = 2
    /\ {Similarity(d) : d \in DistancesOfQuery} = {[num |-> 9, den |-> 10], [num |-> 9, den |-> 30]}
    /\ args.similarity_threshold = 5
    /\ args.filter_metadata = FilterNone

\* C3: search_similar returns exactly those of the top_k nearest entries
\* whose similarity 1/(1+distance) is at least the threshold, and none below
\* it; with two entries of similarity 0.9 and 0.3, a retrieve with threshold
\* 0.5 returns exactly one result.
C3_ThresholdExclusion ==
    /\ op = "search_similar"
       /\ ~ChromaQueryRaises(dimension, args.query_embedding, args.top_k) =>
           LET nearest == NearestOfCall
               passes == {n \in 1..Len(nearest) :
                            AtLeast(Similarity(nearest[n].distance), args.similarity_threshold)}
           IN  /\ \A r \in 1..Len(result) :
                     AtLeast(result[r].similarity_score, args.similarity_threshold)
               /\ Len(result) = Cardinality(passes)
               /\ \A n \in passes : \E r \in 1..Len(result) :
                     /\ result[r].document = nearest[n].document
                     /\ result[r].metadata = nearest[n].metadata
                     /\ result[r].similarity_score = Similarity(nearest[n].distance)
    /\ ThresholdScenario => Len(result) = 1

C3_Witness ==
    /\ ThresholdScenario
    /\ Len(result) = 1
    /\ result[1].similarity_score = [num |-> 9, den |-> 10]

\* Whether a result's metadata holds every key of the filter with an equal
\* value.
MatchesFilter(metadata, F) ==
    \A key \in MapKeys(F) : MapHas(metadata, key) /\ MapGet(metadata, key) = MapGet(F, key)

\* The results of the last retrieve call had no filter been given
UnfilteredOfCall ==
    Retrieve(is_ready, collection, dimension, args.query, args.top_k,
             args.similarity_threshold, FilterNone)

FilteredRetrieve ==
    /\ op = "retrieve"
    /\ is_ready
    /\ args.filter_metadata.t = "map"
    /\ args.filter_metadata.v # <<>>

\* C4: with a non-empty filter F, retrieve keeps a search result if and only
\* if its metadata holds every key of F with an equal value, and the kept
\* results keep the order of the unfiltered search output.
C4_FilterCorrect ==
    FilteredRetrieve =>
        LET unfiltered == UnfilteredOfCall
            kept == {u \in 1..Len(unfiltered) :
                        MatchesFilter(unfiltered[u].metadata, args.filter_metadata)}
            nth(r) == CHOOSE u \in kept : Cardinality({w \in kept : w < u}) = r - 1
        IN  /\ Len(result) = Cardinality(kept)
            /\ \A r \in 1..Len(result) :
                  /\ result[r].content = unfiltered[nth(r)].content
                  /\ result[r].metadata = unfiltered[nth(r)].metadata
                  /\ result[r].distance = unfiltered[nth(r)].distance

C4_Witness ==
    /\ FilteredRetrieve
    /\ Len(result) >= 2
    /\ Len(UnfilteredOfCall) > Len(result)
    /\ \A r \in 1..Len(result) : MapGet(result[r].metadata, "file_type") = StrV(".pdf")

\* C7: every clear_index() call on a ready retriever, the second of two in
\* a row included, returns success and leaves the collection with zero
\* entries, the stats reporting count 0 and status "empty".
C7_IdempotentClear ==
    op = "clear_index" /\ is_ready =>
        /\ result = TRUE
        /\ Len(collection) = 0
        /\ GetCollectionStats(collection) = [document_count |-> 0, status |-> "empty"]

C7_Witness ==
    /\ op = "clear_index"
    /\ after_clear
    /\ is_ready
    /\ result = TRUE
    /\ collection = <<>>

ChunkIdsOf(chunk_list) ==
    [k \in 1..Len(chunk_list) |-> MapGet(chunk_list[k].metadata, "chunk_id").v]

Distinct(ids) == \A i, j \in 1..Len(ids) : i # j => ids[i] # ids[j]

\* C10: after process_multiple_documents no two chunks carry the same
\* chunk_id, and index_chunks on those chunks offers no two entries to the
\* store under the same id.
C10_UniqueChunkIds ==
    /\ cpc = "process_multiple_documents" => Distinct(ChunkIdsOf(chunks))
    /\ op = "index_chunks" /\ cpc = "process_multiple_documents" /\ args.chunks = chunks =>
           Distinct(args.ids)

\* C13: on a retriever that is not ready, index_chunks returns False and
\* retrieve returns the empty list, with no call reaching the encoder or the
\* store and the collection untouched.
C13_NotReadyReturnsEarly ==
    ~is_ready =>
        /\ op = "index_chunks" => result = FALSE /\ trace = <<>> /\ collection = <<>>
        /\ op = "retrieve" => result = <<>> /\ trace = <<>> /\ collection = <<>>

C13_Witness ==
    /\ ~is_ready
    /\ op = "retrieve"
    /\ args.query = TextNear
    /\ result = <<>>
    /\ trace = <<>>

\* The positions in a chunk list of the chunks whose content is not blank,
\* in increasing order
KeptPositions(chunk_list) ==
    LET kept(p) == \E i \in 1..Len(chunk_list[p].content) :
                       ~IsSpace(chunk_list[p].content[i])
    IN  SelectSeq([p \in 1..Len(chunk_list) |-> p], kept)

CallsTo(fn) == {j \in 1..Len(trace) : trace[j].fn = fn}

\* C14: an index_chunks call makes at most one encode_text call, whose
\* argument is the list of all non-blank chunk texts of the call, and at most
\* one add_documents call, which comes after the encode_text call.
C14_OneBatchEncode ==
    op = "index_chunks" =>
        /\ Cardinality(CallsTo("encode_text")) <= 1
        /\ Cardinality(CallsTo("add_documents")) <= 1
        /\ \A j \in CallsTo("encode_text") :
               trace[j].texts = [i \in 1..Len(KeptPositions(args.chunks)) |->
                                    args.chunks[KeptPositions(args.chunks)[i]].content]
        /\ \A j \in CallsTo("add_documents") :
               \E i \in CallsTo("encode_text") : i < j

C14_Witness ==
    /\ op = "index_chunks"
    /\ Len(KeptPositions(args.chunks)) >= 2
    /\ CallsTo("encode_text") = {1}
    /\ CallsTo("add_documents") = {2}

\* C15: in the add_documents call of an index_chunks call, position i holds
\* the text, the metadata, the chunk_id (when the chunk has one) and the
\* vector of the i-th non-blank input chunk.
C15_PairedInOrder ==
    op = "index_chunks" =>
        \A j \in CallsTo("add_documents") :
            LET kept == KeptPositions(args.chunks)
                call == trace[j]
            IN  /\ Len(call.documents) = Len(kept)
                /\ Len(call.metadata) = Len(kept)
                /\ Len(call.ids) = Len(kept)
                /\ Len(call.embeddings) = Len(kept)
                /\ \A i \in 1..Len(kept) :
                       LET chunk == args.chunks[kept[i]]
                       IN  /\ call.documents[i] = chunk.content
                           /\ call.metadata[i] = chunk.metadata
                           /\ call.embeddings[i] = EncodeText(<<chunk.content>>)[1]
                           /\ MapHas(chunk.metadata, "chunk_id") =>
                                  StrV(call.ids[i]) = MapGet(chunk.metadata, "chunk_id")

C15_Witness ==
    /\ op = "index_chunks"
    /\ CallsTo("add_documents") # {}
    /\ KeptPositions(args.chunks) = <<1, 3>>
    /\ args.chunks[1].metadata # args.chunks[3].metadata

\* x <= y for two similarity scores (fractions with positive denominators)
ScoreLeq(x, y) == x.num * y.den <= y.num * x.den

\* C16: in every list retrieve returns, the i-th result has relevance_rank
\* i, each similarity_score lies in [0,1], and the scores do not increase
\* along the list.
C16_RankedByScore ==
    op = "retrieve" =>
        /\ \A i \in 1..Len(result) :
               /\ result[i].relevance_rank = i
               /\ result[i].similarity_score.den > 0
               /\ 0 <= result[i].similarity_score.num
               /\ result[i].similarity_score.num <= result[i].similarity_score.den
        /\ \A i \in 1..(Len(result) - 1) :
               ScoreLeq(result[i + 1].similarity_score, result[i].similarity_score)

\* Two results are returned after the filter dropped the nearest entry.
C16_Witness ==
    /\ op = "retrieve"
    /\ args.filter_metadata = FilterPdf
    /\ Len(result) = 2
    /\ Len(UnfilteredOfCall) = 3
    /\ UnfilteredOfCall[1].content # result[1].content
    /\ ~ScoreLeq(UnfilteredOfCall[1].similarity_score, result[1].similarity_score)

\* The history of the last retrieve_with_context call holds a turn.
HasTurns == ~args.conversation_history.is_none /\ args.conversation_history.turns # <<>>

\* "Context: ", the last two turns of the call's history joined by a blank
\* and cut to 200 characters, "\nQuery: ", and the call's query
ExpectedEnhanced ==
    LET turns == args.conversation_history.turns
        n == Len(turns)
        recent == IF n = 1 THEN turns[1] ELSE turns[n - 1] \o <<" ">> \o turns[n]
        capped == IF Len(recent) > 200 THEN SubSeq(recent, 1, 200) ELSE recent
    IN  <<"C", "o", "n", "t", "e", "x", "t", ":", " ">> \o capped
        \o <<"\n", "Q", "u", "e", "r", "y", ":", " ">> \o args.query

\* The query the last retrieve_with_context call has to retrieve with
RetrievalQuery == IF HasTurns THEN ExpectedEnhanced ELSE args.query

\* C19: the response of retrieve_with_context carries the original query;
\* with a history of at least one turn its enhanced_query is "Context: ",
\* the last two turns joined and cut to 200 characters, "\nQuery: " and the
\* query, and with no history (None or no turn) enhanced_query is None; the
\* results are those of retrieve on the enhanced query, respectively on the
\* original one, and that is the query handed on to the encoder.
C19_ContextEnhancement ==
    op = "retrieve_with_context" =>
        /\ result.query = args.query
        /\ HasTurns => result.enhanced_query = [is_none |-> FALSE, text |-> ExpectedEnhanced]
        /\ ~HasTurns => result.enhanced_query.is_none
        /\ result.results = Retrieve(is_ready, collection, dimension, RetrievalQuery,
                                     NoneArg, NoneArg, FilterNone)
        /\ result.total_results = Len(result.results)
        /\ is_ready =>
               /\ trace # <<>>
               /\ trace[1].fn = "encode_query"
               /\ trace[1].query = Slice(CleanQuery(RetrievalQuery), 0, MaxQueryLength)

\* A call with three turns of history, enhanced by the last two of them
C19_Witness ==
    /\ op = "retrieve_with_context"
    /\ is_ready
    /\ Len(args.conversation_history.turns) = 3
    /\ ~result.enhanced_query.is_none
    /\ Len(result.enhanced_query.text) = 9 + 6 + 8 + Len(args.query)
    /\ trace[1].query # Slice(CleanQuery(args.query), 0, MaxQueryLength)

\* Whether a call recorded in the trace failed
Failed(call) ==
    \/ call.fn \in {"encode_text", "encode_query", "search_similar"} /\ call.raised
    \/ call.fn = "add_documents" /\ ~call.returned

\* When the encoder or the store fails during index_chunks the call returns
\* False, and when either fails during retrieve the call returns [].
FailuresReported ==
    /\ (op = "index_chunks" /\ \E j \in 1..Len(trace) : Failed(trace[j])) => result = FALSE
    /\ (op = "retrieve" /\ \E j \in 1..Len(trace) : Failed(trace[j])) => result = <<>>

\* Whether the collection holds, under the id offered for it, the text of
\* every non-blank chunk of the last index_chunks call
AllChunksStored ==
    \A j \in CallsTo("add_documents") :
        \A i \in 1..Len(trace[j].ids) :
            \E e \in 1..Len(collection) :
                /\ collection[e].id = trace[j].ids[i]
                /\ collection[e].document = trace[j].documents[i]

\* C18: a failure of the encoder or the store during index_chunks or
\* retrieve makes the call return False or [], and index_chunks returns True
\* only if every non-blank chunk of the call is in the collection afterwards.
C18_NoPartialSuccess ==
    /\ FailuresReported
    /\ (op = "index_chunks" /\ result = TRUE) => AllChunksStored

\* C27: retrieve hands search_similar the caller's explicit top_k and
\* similarity_threshold unchanged and the configured defaults for omitted
\* ones; with similarity_threshold = 0 and no filter it returns every one of
\* the top_k nearest entries.
C27_ExplicitSettingsPassed ==
    (op = "retrieve" /\ (args.top_k = NoneArg \/ args.top_k >= 1)) =>
        /\ \A j \in CallsTo("search_similar") :
               /\ trace[j].top_k =
                      IF args.top_k = NoneArg THEN DefaultTopK ELSE args.top_k
               /\ trace[j].similarity_threshold =
                      IF args.similarity_threshold = NoneArg
                      THEN DefaultSimilarityThreshold ELSE args.similarity_threshold
        /\ (/\ args.similarity_threshold = 0
            /\ args.filter_metadata = FilterNone
            /\ \E j \in CallsTo("search_similar") : ~trace[j].raised) =>
               Len(result) = Min({args.top_k, Len(collection)})

\* Whether a stored entry is a chunk process_document made from a document
\* whose metadata has file_type ".pdf"
FromPdfDocument(entry) ==
    \E k \in 1..Len(chunks) :
        /\ MapGet(chunks[k].metadata, "chunk_id") = StrV(entry.id)
        /\ chunks[k].content = entry.document
        /\ MapGet(MapGet(chunks[k].metadata, "source_metadata"), "file_type") = StrV(".pdf")

\* C29: retrieve with metadata_filter {"file_type": ".pdf"} keeps every
\* search result that is a chunk process_document made from a document whose
\* metadata has file_type ".pdf".
C29_FilterEndToEnd ==
    (op = "retrieve" /\ is_ready /\ args.filter_metadata = FilterPdf
        /\ \E j \in CallsTo("search_similar") : ~trace[j].raised) =>
        \A e \in 1..Len(collection) :
            (/\ FromPdfDocument(collection[e])
             /\ \E u \in 1..Len(UnfilteredOfCall) :
                    UnfilteredOfCall[u].content = collection[e].document) =>
                \E r \in 1..Len(result) : result[r].content = collection[e].document

\* The positions of a call's valid chunks whose id index_chunks synthesizes
SynthesizedPositions(chunk_list) ==
    LET valid == ValidChunks(chunk_list)
    IN  {k \in 1..Len(valid) :
            ~(/\ MapHas(valid[k].metadata, "chunk_id")
              /\ MapGet(valid[k].metadata, "chunk_id").t = "str"
              /\ MapGet(valid[k].metadata, "chunk_id").v # "")}

\* C26: an id index_chunks synthesizes for a chunk without chunk_id equals
\* neither an id stored in the collection before the call nor another id of
\* the same call.
C26_SynthesizedIdsUnique ==
    [][(storeVars' # storeVars /\ op' = "index_chunks" /\ result' = TRUE) =>
          \A k \in SynthesizedPositions(args'.chunks) :
              /\ args'.ids[k] \notin EntryIds(collection)
              /\ \A j \in 1..Len(args'.ids) : j # k => args'.ids[j] # args'.ids[k]]_vars

----------------------------------------------------------------------------
(* Vector store: properties                                                *)

NamedIn(ids, id) == \E i \in 1..Len(ids) : ids[i] = id

\* C17: in every step of the store, search_similar and get_collection_stats
\* leave the collection as it is, delete_document leaves exactly the entries
\* it does not name, in their order, and an entry leaves the collection only
\* in a delete_document that names its id or in a clear_collection.
C17_EntriesPersist ==
    [][/\ op' \in {"search_similar", "get_collection_stats"} => collection' = collection
       /\ op' = "delete_document" =>
              collection' = SelectSeq(collection, LAMBDA e : ~NamedIn(args'.ids, e.id))
       /\ \A i \in 1..Len(collection) :
              \/ \E j \in 1..Len(collection') : collection'[j] = collection[i]
              \/ op' = "delete_document" /\ NamedIn(args'.ids, collection[i].id)
              \/ op' = "clear_collection"]_vars

\* A delete of "x" took place and the entry added together with it is kept.
C17_Witness ==
    /\ op = "delete_document"
    /\ args.ids = <<"x">>
    /\ "y" \in EntryIds(collection)
    /\ "x" \notin EntryIds(collection)
    /\ Len(collection) >= 2

\* Whether some vector of a batch has another dimension than the
\* collection's, or than another vector of the batch
DimensionMismatch(embeddings, dim) ==
    \/ dim # 0 /\ \E i \in 1..Len(embeddings) : Len(embeddings[i]) # dim
    \/ \E i, j \in 1..Len(embeddings) : Len(embeddings[i]) # Len(embeddings[j])

\* C20: after every step of the store all stored vectors have the
\* collection's dimension, and an add_documents whose vectors differ in
\* dimension from the collection's, or from each other, returns False and
\* leaves the collection as it was.
C20_OneDimension ==
    [][/\ \A i \in 1..Len(collection') : Len(collection'[i].embedding) = dimension'
       /\ (op' = "add_documents" /\ DimensionMismatch(args'.embeddings, dimension)) =>
              /\ result' = FALSE
              /\ collection' = collection
              /\ dimension' = dimension]_vars

\* An add of two-dimensional vectors to a collection of three-dimensional
\* ones was rejected.
C20_Witness ==
    /\ op = "add_documents"
    /\ has_collection
    /\ result = FALSE
    /\ dimension = 3
    /\ collection # <<>>
    /\ \A i \in 1..Len(args.embeddings) : Len(args.embeddings[i]) = 2

\* The ids add_documents generates while the collection holds at most
\* MaxEntries entries
GeneratedIds == {"doc_" \o ToString(n) : n \in 0..MaxEntries}

\* C24: when add_documents is called without ids on a collection whose
\* entries all have generated ids, none of the ids it generates ("doc_" and
\* the collection's size plus the record's position) is the id of an entry
\* the collection holds at the call.
C24_GeneratedIdsFresh ==
    [][(/\ op' = "add_documents"
        /\ ~args'.ids_given
        /\ has_collection
        /\ EntryIds(collection) \subseteq GeneratedIds) =>
           \A i \in 1..Len(args'.documents) :
               ("doc_" \o ToString(Len(collection) + i - 1)) \notin EntryIds(collection)]_vars

----------------------------------------------------------------------------
(* Chunker properties                                                      *)

\* The segment list of the single document of the batch.
SegmentsOfCall ==
    Segments(documents[1].content, chunk_size, chunk_overlap,
             preserve_sentences, nltk_available)

\* The sentences of document d, as _chunk_by_sentences sees them.
SentencesOfDoc(d) == Sentences(CleanText(d.content), nltk_available)

\* Whether document d has empty or whitespace-only content.
BlankDoc(d) ==
    \/ d.content_kind = "none"
    \/ d.content_kind = "str" /\ \A i \in 1..Len(d.content) : IsSpace(d.content[i])

\* C1 (as amended): in sentence-preserving mode every chunk process_document
\* emits is at most chunk_size + chunk_overlap + 1 characters long: a packed
\* chunk of at most chunk_size, an overlap of at most chunk_overlap, and the
\* space that joins them.
C1_SizeBoundWithSeparator ==
    (cpc # "ready" /\ preserve_sentences) =>
        \A i \in 1..Len(chunks) :
            Len(chunks[i].content) <= chunk_size + chunk_overlap + 1

\* C1 witness: a sentence-mode call emitted a chunk that attains the bound.
C1_Witness ==
    /\ cpc = "process_document"
    /\ preserve_sentences
    /\ \E i \in 1..Len(chunks) :
          Len(chunks[i].content) = chunk_size + chunk_overlap + 1

\* C1 as claimed: in sentence-preserving mode every emitted chunk, except
\* those containing a single unsplittable sentence, is at most
\* chunk_size + chunk_overlap characters long.  The exception is granted to
\* every chunk of a document that has any sentence longer than chunk_size.
C1_SizeBound ==
    (/\ cpc = "process_document"
     /\ preserve_sentences
     /\ documents[1].content_kind = "str"
     /\ LET sentences == SentencesOfDoc(documents[1])
        IN  \A k \in 1..Len(sentences) : Len(sentences[k]) <= chunk_size) =>
        \A i \in 1..Len(chunks) :
            Len(chunks[i].content) <= chunk_size + chunk_overlap

\* The segments of the call that survive the 50-character filter.
LongSegmentCount ==
    LET segments == SegmentsOfCall
    IN  Cardinality({i \in 1..Len(segments) :
                        Len(Strip(segments[i])) >= MinChunkChars})

\* C6 (as amended): process_document never returns more than
\* max_chunks_per_doc chunks, and returns exactly that many when more than
\* max_chunks_per_doc of the document's segments are at least 50 characters
\* long after trimming.
C6_CapEnforced ==
    (cpc = "process_document" /\ documents[1].content_kind = "str") =>
        /\ Len(chunks) <= max_chunks_per_doc
        /\ LongSegmentCount > max_chunks_per_doc => Len(chunks) = max_chunks_per_doc

\* C6 witness: a document with more long segments than the cap was cut to it.
C6_Witness ==
    /\ cpc = "process_document"
    /\ documents[1].content_kind = "str"
    /\ LongSegmentCount > max_chunks_per_doc
    /\ Len(chunks) = max_chunks_per_doc

\* C6 as claimed: never more than max_chunks_per_doc chunks, and exactly
\* max_chunks_per_doc for a document whose text produces more segments.
C6_CapExact ==
    (cpc = "process_document" /\ documents[1].content_kind = "str") =>
        /\ Len(chunks) <= max_chunks_per_doc
        /\ Len(SegmentsOfCall) > max_chunks_per_doc => Len(chunks) = max_chunks_per_doc

\* C8: a document whose content is empty or whitespace-only yields no
\* chunks and the call does not raise, for process_document and for
\* process_multiple_documents over such documents.
C8_BlankContentNoChunks ==
    (cpc # "ready" /\ \A k \in 1..Len(documents) : BlankDoc(documents[k])) =>
        chunks = <<>> /\ ~raised

\* C8 witness: process_multiple_documents ran over two blank documents.
C8_Witness ==
    /\ cpc = "process_multiple_documents"
    /\ Len(documents) = 2
    /\ \A k \in 1..Len(documents) : BlankDoc(documents[k])
    /\ \E k \in 1..Len(documents) : documents[k].content_kind = "none"
    /\ \E k \in 1..Len(documents) : documents[k].content # <<>>
    /\ chunks = <<>>

\* The spec's scenario: its text chunked with chunk_size 40, overlap 10.
ScenarioCall ==
    /\ cpc = "process_document"
    /\ documents[1].content_kind = "str"
    /\ documents[1].content = ScenarioText
    /\ chunk_size = 40
    /\ chunk_overlap = 10
    /\ preserve_sentences

\* Whether text b begins with a trailing fragment of text a: some non-empty
\* suffix of a, followed by the joining space.
BeginsWithTailOf(b, a) ==
    \E n \in 1..Len(a) :
        /\ n + 1 <= Len(b)
        /\ SubSeq(b, 1, n) = LastN(a, n)
        /\ b[n + 1] = " "

\* C9 (as amended): in the scenario process_document returns no chunk,
\* because both of its segments are shorter than 50 characters; the
\* segmentation itself has 2 segments, each at most 50 characters long, the
\* second beginning with a trailing fragment of the first.
C9_ScenarioSegments ==
    ScenarioCall =>
        LET segments == SegmentsOfCall
        IN
        /\ chunks = <<>>
        /\ Len(segments) = 2
        /\ \A i \in 1..Len(segments) : Len(segments[i]) <= 50
        /\ BeginsWithTailOf(segments[2],
               PackedChunks(CleanText(ScenarioText), chunk_size, chunk_overlap,
                            nltk_available)[1])

\* C9 witness: the scenario was run.
C9_Witness == ScenarioCall /\ chunks = <<>> /\ ~nltk_available

\* C9 as claimed: the scenario yields 2 or 3 chunks, each at most 50
\* characters long, the second beginning with a trailing fragment of the
\* first.
C9_Scenario ==
    ScenarioCall =>
        /\ Len(chunks) \in {2, 3}
        /\ \A i \in 1..Len(chunks) : Len(chunks[i].content) <= 50
        /\ BeginsWithTailOf(chunks[2].content, chunks[1].content)

\* C11: the chunk_index values of the chunks process_document returns are
\* 0, 1, 2, ... in order: the 0-based position in the emitted sequence.
C11_ChunkIndexIsPosition ==
    cpc = "process_document" =>
        \A k \in 1..Len(chunks) : MapGet(chunks[k].metadata, "chunk_index") = IntV(k - 1)

\* The overlap taken from a packed chunk: its last chunk_overlap characters
\* (all of it when it is shorter), from after their last ". " on when they
\* hold one.
OverlapPrefix(previous, overlap) ==
    LET n == IF Len(previous) > overlap THEN overlap ELSE Len(previous)
        tail == SubSeq(previous, Len(previous) - n + 1, Len(previous))
        cuts == {j \in 1..(n - 1) : tail[j] = "." /\ tail[j + 1] = " "}
        last == CHOOSE j \in cuts : \A k \in cuts : k <= j
    IN  IF cuts = {} THEN tail ELSE SubSeq(tail, last + 2, n)

\* The packed chunks of the call's document, before the overlap is added
PackedOfCall ==
    PackedChunks(CleanText(documents[1].content), chunk_size, chunk_overlap, nltk_available)

\* C21: in sentence mode the first segment is the first packed chunk, every
\* later segment i is p, a space and packed chunk i, where p is the tail of
\* at most chunk_overlap characters of packed chunk i-1 cut to start after
\* its last ". "; and every chunk process_document returns is the stripped
\* segment of its chunk_index.
C21_OverlapInjection ==
    (cpc = "process_document" /\ preserve_sentences /\ documents[1].content_kind = "str") =>
        LET packed == PackedOfCall
            segments == SegmentsOfCall
        IN  /\ Len(segments) = Len(packed)
            /\ \A i \in 1..Len(packed) :
                   segments[i] = IF i = 1 THEN packed[1]
                                 ELSE OverlapPrefix(packed[i - 1], chunk_overlap)
                                      \o <<" ">> \o packed[i]
            /\ \A k \in 1..Len(chunks) :
                   chunks[k].content =
                       Strip(segments[MapGet(chunks[k].metadata, "chunk_index").v + 1])

\* A returned chunk whose overlap "ab." was cut after the ". " before it
C21_Witness ==
    /\ cpc = "process_document"
    /\ preserve_sentences
    /\ nltk_available
    /\ Len(PackedOfCall) = 2
    /\ Len(PackedOfCall[1]) > chunk_overlap
    /\ \E k \in 1..Len(chunks) :
           /\ MapGet(chunks[k].metadata, "chunk_index") = IntV(1)
           /\ chunks[k].content = <<"a", "b", ".", " ">> \o PackedOfCall[2]

\* C22: in _chunk_by_characters every next window starts exactly
\* chunk_size - chunk_overlap characters after the start of the window
\* before it.
C22_FixedStride ==
    [][lpc' = "loop" => loop_start' - loop_start = chunk_size - chunk_overlap]_vars

\* C23: with 0 < chunk_overlap < chunk_size the window start of
\* _chunk_by_characters grows in every iteration that does not leave the
\* loop, so the loop ends.
C23_StartIncreases ==
    [][lpc' = "loop" => loop_start' > loop_start]_vars

\* Once the loop has ended, its windows are those of ChunkByCharacters.
LoopAgreesWithOperator ==
    lpc = "done" =>
        loop_chunks = ChunkByCharacters(loop_text, chunk_size, chunk_overlap)

----------------------------------------------------------------------------
(* Flattening properties                                                   *)

\* The leaves of mapping m in iteration order: every value that is not a
\* mapping, with the keys that lead to it.
RECURSIVE LeafList(_, _)
LeafList(m, path) ==
    Flatten([i \in 1..Len(m.v) |->
        IF m.v[i][2].t = "map" THEN LeafList(m.v[i][2], Append(path, m.v[i][1]))
        ELSE << [path |-> Append(path, m.v[i][1]), value |-> m.v[i][2]] >>])

\* What a leaf value is stored as: a scalar as it is, a list as the
\* ', '-joined string of its elements.
StoredValue(x) ==
    IF x.t = "list" THEN StrV(JoinStr([k \in 1..Len(x.v) |-> PyStr(x.v[k])], ", "))
    ELSE x

SpecExampleMeta ==
    MapV(<< <<"a", MapV(<< <<"b", IntV(1)>>, <<"c", ListV(<<IntV(1), IntV(2)>>)>> >>)>> >>)

\* Flattening under a naming of the leaves' keys: only scalars in the
\* output, its keys are the leaves' names, every output value is the stored
\* form of a leaf of that name, and the spec's example comes out as stated.
FlattensWithKeys(KeyOf(_)) ==
    LET leaves == LeafList(meta_in, <<>>)
    IN  /\ \A k \in 1..Len(meta_out.v) : meta_out.v[k][2].t \in ScalarTags
        /\ MapKeys(meta_out) = {KeyOf(leaves[i].path) : i \in 1..Len(leaves)}
        /\ \A k \in 1..Len(meta_out.v) :
              \E i \in 1..Len(leaves) :
                  /\ KeyOf(leaves[i].path) = meta_out.v[k][1]
                  /\ StoredValue(leaves[i].value) = meta_out.v[k][2]
        /\ meta_in = SpecExampleMeta =>
              meta_out = MapV(<< <<"a_b", IntV(1)>>, <<"a_c", StrV("1, 2")>> >>)

\* The path's keys joined with '_'.
JoinedKey(path) == JoinStr(path, "_")

\* The path's keys joined with '_' after its leading empty-string keys
\* are dropped.
RECURSIVE JoinedNonEmptyKey(_)
JoinedNonEmptyKey(path) ==
    IF path # <<>> /\ Head(path) = "" THEN JoinedNonEmptyKey(Tail(path))
    ELSE JoinStr(path, "_")

\* C5: the output of _flatten_metadata holds only scalar values, the key of
\* a nested value is its parent and child keys joined with '_', scalars pass
\* through unchanged, lists become the ', '-joined string of their elements,
\* and {"a": {"b": 1, "c": [1,2]}} yields {"a_b": 1, "a_c": "1, 2"}.
C5_Flatten == fpc = "done" => FlattensWithKeys(JoinedKey)

\* C5 for what the code does: as C5, with the empty-string keys a path
\* starts with contributing nothing to the joined key.
C5_FlattenNonEmptyKeys == fpc = "done" => FlattensWithKeys(JoinedNonEmptyKey)

\* C28: the flattened mapping has as many entries as the input has leaves
\* (values that are not mappings), and distinct leaf paths have distinct
\* output keys.
C28_FlattenLosesNoEntry ==
    fpc = "done" =>
        LET leaves == LeafList(meta_in, <<>>)
        IN  /\ Len(meta_out.v) = Len(leaves)
            /\ \A i, j \in 1..Len(leaves) :
                   leaves[i].path # leaves[j].path =>
                       JoinedNonEmptyKey(leaves[i].path) # JoinedNonEmptyKey(leaves[j].path)

====
